---- MODULE Spec2Model ----
(***************************************************************************)
(* A model of the anti-bot scraper's concurrent engine and proxy layer.    *)
(*                                                                         *)
(*   SpecPool    the WorkerPool of internal/scraper/concurrent_engine.go:  *)
(*               Start, Stop, SubmitJob, GetResult and the worker          *)
(*               goroutines, one step per channel or mutex operation.      *)
(*   SpecHealth  the ProxyHealthChecker of internal/scraper/advanced.go    *)
(*               and the HealthAware ProxyRotator that reads it: probe     *)
(*               results, EnableProxy, DisableProxy, GetNext.              *)
(*   SpecRetry   one call of AdvancedScraper.GetWithRetry or               *)
(*               PostWithRetry, with or without a ProxyRotator in any of   *)
(*               its three modes.                                          *)
(*   SpecQueue   the IntelligentQueue of concurrent_engine.go: EnqueueJob, *)
(*               DequeueJob and Close called from different goroutines.    *)
(*                                                                         *)
(* Each specification moves one component and leaves the others as built.  *)
(* Goroutines interleave at channel and mutex operations; a Go select      *)
(* with several ready cases picks any of them, so each ready case is its   *)
(* own enabled disjunct.  A panic ends the process: it sets crashed and    *)
(* every action is disabled afterwards.                                    *)
(***************************************************************************)
EXTENDS Integers, Sequences, FiniteSets, TLC

VARIABLES
    \* ---- WorkerPool (concurrent_engine.go) ----
    config,         \* ConcurrencyConfig: MaxConcurrent, WorkerPoolSize
    running,        \* wp.running
    ctxDone,        \* wp.ctx has been cancelled
    jobQueue,       \* wp.jobQueue: buffered channel of jobs (FIFO)
    jqClosed,       \* wp.jobQueue has been closed
    resultQueue,    \* wp.resultQueue: buffered channel of results
    rqClosed,       \* wp.resultQueue has been closed
    quitClosed,     \* every worker.quit has been closed
    wg,             \* wp.wg counter
    wpc,            \* worker goroutine position
    wjob,           \* the job a worker holds (0: none)
    statsPc,        \* statsUpdater goroutine position
    sub,            \* position / outcome of the SubmitJob call for each job
    delivered,      \* number of results sent on each job's ResultChan
    totalJobs,      \* wp.stats.TotalJobs
    completedJobs,  \* wp.stats.CompletedJobs
    ctl,            \* position of the goroutine that calls Start and Stop
    crashed,        \* the process has panicked
    \* ---- the other components, one record each ----
    pr,             \* the ProxyRotator and its GetNext call
    phc,            \* the ProxyHealthChecker and its probes
    a,              \* the AdvancedScraper and its GetWithRetry / PostWithRetry call
    iq,             \* the IntelligentQueue and its DequeueJob / Close calls
    tb,             \* the TokenBucket and the workers' WaitForToken calls
    mo,             \* the MemoryOptimizer and the caller that checks and submits
    cli,            \* the command-line process (cmd/scraper/main.go)
    sc              \* a Scraper: its headers, cookie jar, proxy and redirect settings

poolVars == <<config, running, ctxDone, jobQueue, jqClosed, resultQueue, rqClosed,
              quitClosed, wg, wpc, wjob, statsPc, sub, delivered, totalJobs,
              completedJobs, ctl, crashed>>

vars == <<poolVars, pr, phc, a, iq, tb, mo, cli, sc>>

notPool == <<pr, phc, a, iq, tb, mo, cli, sc>>

\* The command line and the scraper it builds.
clientVars == <<cli, sc>>

\* The WorkerPool with its rate limiter and the memory optimizer.
engineVars == <<poolVars, tb, mo>>

(***************************************************************************)
(* Bounds                                                                  *)
(***************************************************************************)
\* Largest WorkerPoolSize and MaxConcurrent tried.
MaxWorkers == 2
\* Number of distinct jobs submitted.
NumJobs == 3
\* config.RequestBuffer: capacity of jobQueue and of resultQueue.
RequestBuffer == 2

Workers == 1..MaxWorkers
Jobs == 1..NumJobs
NoJob == 0
\* A nil *RequestJob.
NilJob == [id |-> 0, Priority |-> 0]

\* RequestJob.Priority of each job: one low, one high, the rest normal.
Priority(j) == CASE j = 1 -> 2
                 [] j = 2 -> 9
                 [] OTHER -> 5

\* main.go builds every job with ResultChan: make(chan *JobResult, 1).
ResultChanCap(j) == 1

SeqToSet(s) == {s[i] : i \in 1..Len(s)}

(***************************************************************************)
(* WorkerPool                                                              *)
(***************************************************************************)
\* No proxy rotator is configured.
ProxyOff ==
    /\ pr = [proxies |-> <<>>, current |-> 0, mode |-> "RotatePerRequest",
             failedCount |-> <<>>, pc |-> "idle", healthyProxies |-> {},
             ret |-> 0, panicked |-> FALSE]
    /\ phc = [proxies |-> <<>>, pending |-> {}, probes |-> 0, consec |-> <<>>]

\* No GetWithRetry or PostWithRetry call is made.
RetryOff ==
    a = [retryCount |-> 0, method |-> "GET", urlOK |-> TRUE,
         hasRotator |-> FALSE, valid |-> <<>>, i |-> 0, pc |-> "off",
         attempts |-> 0, lastErr |-> "nil", result |-> "none", proxyURL |-> 0,
         transportProxy |-> 0, lastStatus |-> 0, resultStatus |-> 0,
         resultErr |-> "none", waits |-> <<>>]

\* NewIntelligentQueue: three empty open channels, zeroed stats.
QueueOff ==
    iq = [highPriority |-> <<>>, normalPriority |-> <<>>, lowPriority |-> <<>>,
          closed |-> {},
          stats |-> [HighPriorityJobs |-> 0, NormalPriorityJobs |-> 0,
                     LowPriorityJobs |-> 0, DroppedJobs |-> 0, TotalQueued |-> 0],
          nextId |-> 1, dqPc |-> "idle", dqJob |-> NilJob, dqOk |-> FALSE,
          clPc |-> "idle", panicked |-> FALSE]

BucketOff ==
    tb = [capacity |-> 0, tokens |-> 0, refillRate |-> 0, sinceRefill |-> 0,
          pc |-> <<>>, jobs |-> 0, taken |-> 0, ctxDone |-> FALSE]

MemoryOff ==
    mo = [maxMemoryMB |-> 0, gcThresholdMB |-> 0, gcDue |-> FALSE,
          currentMemoryMB |-> 0, pc |-> "off", high |-> FALSE, jobs |-> 0,
          admitted |-> 0]

CliOff ==
    cli = [pc |-> "off"]

ScraperOff ==
    sc = [pc |-> "off"]

\* NewWorkerPool: channels empty and open, workers created but not started.
PoolFresh ==
    /\ running = FALSE
    /\ ctxDone = FALSE
    /\ jobQueue = <<>>
    /\ jqClosed = FALSE
    /\ resultQueue = <<>>
    /\ rqClosed = FALSE
    /\ quitClosed = FALSE
    /\ wg = 0
    /\ wpc = [w \in Workers |-> "off"]
    /\ wjob = [w \in Workers |-> NoJob]
    /\ statsPc = "off"
    /\ sub = [j \in Jobs |-> "new"]
    /\ delivered = [j \in Jobs |-> 0]
    /\ totalJobs = 0
    /\ completedJobs = 0
    /\ ctl = "idle"
    /\ crashed = FALSE

\* A pool for every MaxConcurrent / WorkerPoolSize combination in range; the
\* rotator, the scraper and the queue stay as built.
PoolInit ==
    /\ config \in [MaxConcurrent : 1..MaxWorkers, WorkerPoolSize : 1..MaxWorkers]
    /\ PoolFresh
    /\ ProxyOff
    /\ RetryOff
    /\ QueueOff
    /\ BucketOff
    /\ MemoryOff
    /\ CliOff
    /\ ScraperOff

\* The pool as the specifications of the other components hold it: built,
\* never started.
PoolOff ==
    /\ config = [MaxConcurrent |-> 1, WorkerPoolSize |-> 1]
    /\ PoolFresh

\* The workers NewWorkerPool created: config.WorkerPoolSize of them.
PoolWorkers == 1..config.WorkerPoolSize

\* Jobs being processed: the worker is inside processJob.
InFlight == {w \in Workers : wpc[w] \in {"proc", "send"}}

\* Start: under wp.mutex; rejects a running pool, otherwise launches every
\* worker and the stats updater and sets running.
Start ==
    /\ ~crashed
    /\ UNCHANGED notPool
    /\ ctl = "idle"
    /\ IF running
       THEN UNCHANGED poolVars
       ELSE /\ wpc' = [w \in Workers |-> IF w \in PoolWorkers THEN "select" ELSE wpc[w]]
            /\ wg' = wg + config.WorkerPoolSize + 1
            /\ statsPc' = "run"
            /\ running' = TRUE
            /\ UNCHANGED <<config, ctxDone, jobQueue, jqClosed, resultQueue, rqClosed,
                           quitClosed, wjob, sub, delivered, totalJobs, completedJobs,
                           ctl, crashed>>

\* Stop, first part: under wp.mutex; rejects a pool that is not running,
\* otherwise clears running.
StopBegin ==
    /\ ~crashed
    /\ UNCHANGED notPool
    /\ ctl = "idle"
    /\ IF ~running
       THEN UNCHANGED poolVars
       ELSE /\ running' = FALSE
            /\ ctl' = "cancel"
            /\ UNCHANGED <<config, ctxDone, jobQueue, jqClosed, resultQueue, rqClosed,
                           quitClosed, wg, wpc, wjob, statsPc, sub, delivered,
                           totalJobs, completedJobs, crashed>>

\* Stop: wp.cancel().
StopCancel ==
    /\ ~crashed
    /\ UNCHANGED notPool
    /\ ctl = "cancel"
    /\ ctxDone' = TRUE
    /\ ctl' = "closeJobs"
    /\ UNCHANGED <<config, running, jobQueue, jqClosed, resultQueue, rqClosed,
                   quitClosed, wg, wpc, wjob, statsPc, sub, delivered, totalJobs,
                   completedJobs, crashed>>

\* Stop: close(wp.jobQueue); closing a closed channel panics.
StopCloseJobs ==
    /\ ~crashed
    /\ UNCHANGED notPool
    /\ ctl = "closeJobs"
    /\ IF jqClosed
       THEN /\ crashed' = TRUE
            /\ UNCHANGED <<jqClosed, ctl>>
       ELSE /\ jqClosed' = TRUE
            /\ ctl' = "closeQuit"
            /\ UNCHANGED crashed
    /\ UNCHANGED <<config, running, ctxDone, jobQueue, resultQueue, rqClosed,
                   quitClosed, wg, wpc, wjob, statsPc, sub, delivered, totalJobs,
                   completedJobs>>

\* Stop: close(worker.quit) for every worker.  The context is already
\* cancelled, so a worker that can leave through quit can leave through
\* ctx.Done() as well: the closes are taken in one step.
StopCloseQuit ==
    /\ ~crashed
    /\ UNCHANGED notPool
    /\ ctl = "closeQuit"
    /\ quitClosed' = TRUE
    /\ ctl' = "wait"
    /\ UNCHANGED <<config, running, ctxDone, jobQueue, jqClosed, resultQueue, rqClosed,
                   wg, wpc, wjob, statsPc, sub, delivered, totalJobs, completedJobs,
                   crashed>>

\* wp.wg.Wait() returns when the counter is zero.
WaitGroupDone_NoWait == TRUE

WaitGroupDone == wg = 0

\* Stop, last part: wp.wg.Wait(), close(wp.resultQueue), return nil.
StopWait ==
    /\ ~crashed
    /\ UNCHANGED notPool
    /\ ctl = "wait"
    /\ WaitGroupDone
    /\ rqClosed' = TRUE
    /\ ctl' = "idle"
    /\ UNCHANGED <<config, running, ctxDone, jobQueue, jqClosed, resultQueue,
                   quitClosed, wg, wpc, wjob, statsPc, sub, delivered, totalJobs,
                   completedJobs, crashed>>

\* The producer goroutine submits the jobs one after the other, as
\* handleConcurrentRequests does: a call starts when the previous returned.
ProducerReady(j) == \A k \in Jobs : k < j => sub[k] \notin {"new", "select"}

\* SubmitJob, first part: reads running under the read lock; a pool that is
\* not running rejects the job, otherwise TotalJobs is counted.
SubmitCheck(j) ==
    /\ ~crashed
    /\ UNCHANGED notPool
    /\ sub[j] = "new"
    /\ ProducerReady(j)
    /\ IF ~running
       THEN /\ sub' = [sub EXCEPT ![j] = "notRunning"]
            /\ UNCHANGED totalJobs
       ELSE /\ sub' = [sub EXCEPT ![j] = "select"]
            /\ totalJobs' = totalJobs + 1
    /\ UNCHANGED <<config, running, ctxDone, jobQueue, jqClosed, resultQueue, rqClosed,
                   quitClosed, wg, wpc, wjob, statsPc, delivered, completedJobs, ctl,
                   crashed>>

\* A send on the buffered jobQueue can proceed when the buffer has room.
QueueHasRoom_OffByOne == Len(jobQueue) <= RequestBuffer

QueueHasRoom == Len(jobQueue) < RequestBuffer

\* SubmitJob's select, case wp.jobQueue <- job: the job is enqueued.
SubmitSend(j) ==
    /\ ~crashed
    /\ UNCHANGED notPool
    /\ sub[j] = "select"
    /\ ~jqClosed
    /\ QueueHasRoom
    /\ jobQueue' = Append(jobQueue, j)
    /\ sub' = [sub EXCEPT ![j] = "accepted"]
    /\ UNCHANGED <<config, running, ctxDone, jqClosed, resultQueue, rqClosed,
                   quitClosed, wg, wpc, wjob, statsPc, delivered, totalJobs,
                   completedJobs, ctl, crashed>>

\* SubmitJob's select, case wp.jobQueue <- job on a closed channel: panic.
SubmitSendClosed(j) ==
    /\ ~crashed
    /\ UNCHANGED notPool
    /\ sub[j] = "select"
    /\ jqClosed
    /\ sub' = [sub EXCEPT ![j] = "panic"]
    /\ crashed' = TRUE
    /\ UNCHANGED <<config, running, ctxDone, jobQueue, jqClosed, resultQueue, rqClosed,
                   quitClosed, wg, wpc, wjob, statsPc, delivered, totalJobs,
                   completedJobs, ctl>>

\* SubmitJob's select, case <-wp.ctx.Done(): "worker pool is shutting down".
SubmitShutdown(j) ==
    /\ ~crashed
    /\ UNCHANGED notPool
    /\ sub[j] = "select"
    /\ ctxDone
    /\ sub' = [sub EXCEPT ![j] = "shutdown"]
    /\ UNCHANGED <<config, running, ctxDone, jobQueue, jqClosed, resultQueue, rqClosed,
                   quitClosed, wg, wpc, wjob, statsPc, delivered, totalJobs,
                   completedJobs, ctl, crashed>>

\* SubmitJob's select, default (no case ready): "job queue is full".
SubmitFull(j) ==
    /\ ~crashed
    /\ UNCHANGED notPool
    /\ sub[j] = "select"
    /\ ~jqClosed
    /\ ~QueueHasRoom
    /\ ~ctxDone
    /\ sub' = [sub EXCEPT ![j] = "full"]
    /\ UNCHANGED <<config, running, ctxDone, jobQueue, jqClosed, resultQueue, rqClosed,
                   quitClosed, wg, wpc, wjob, statsPc, delivered, totalJobs,
                   completedJobs, ctl, crashed>>

\* The job a worker receives from the channel: the oldest one.
NextJob_ByPriority ==
    CHOOSE j \in SeqToSet(jobQueue) :
        \A k \in SeqToSet(jobQueue) : Priority(k) <= Priority(j)

NextJob == Head(jobQueue)

\* The channel after the worker has received NextJob.
RemoveJob(q, j) == SelectSeq(q, LAMBDA x : x # j)

\* Worker.start's select, case job := <-w.jobQueue with a job: processJob.
WorkerTake(w) ==
    /\ ~crashed
    /\ UNCHANGED notPool
    /\ wpc[w] = "select"
    /\ Len(jobQueue) > 0
    /\ wjob' = [wjob EXCEPT ![w] = NextJob]
    /\ jobQueue' = RemoveJob(jobQueue, NextJob)
    /\ wpc' = [wpc EXCEPT ![w] = "proc"]
    /\ UNCHANGED <<config, running, ctxDone, jqClosed, resultQueue, rqClosed,
                   quitClosed, wg, statsPc, sub, delivered, totalJobs, completedJobs,
                   ctl, crashed>>

\* A worker goroutine returns: the deferred w.pool.wg.Done().
WorkerReturn(w) ==
    /\ wpc' = [wpc EXCEPT ![w] = "exited"]
    /\ wg' = wg - 1
    /\ UNCHANGED <<config, running, ctxDone, jobQueue, jqClosed, resultQueue, rqClosed,
                   quitClosed, wjob, statsPc, sub, delivered, totalJobs, completedJobs,
                   ctl, crashed>>

\* Worker.start's select, case job := <-w.jobQueue on a closed and drained
\* channel: job == nil, return.
WorkerQueueClosed(w) ==
    /\ ~crashed
    /\ UNCHANGED notPool
    /\ wpc[w] = "select"
    /\ jqClosed
    /\ Len(jobQueue) = 0
    /\ WorkerReturn(w)

\* Worker.start's select, case <-w.quit.
WorkerQuit(w) ==
    /\ ~crashed
    /\ UNCHANGED notPool
    /\ wpc[w] = "select"
    /\ quitClosed
    /\ WorkerReturn(w)

\* Worker.start's select, case <-w.pool.ctx.Done().
WorkerCtxDone(w) ==
    /\ ~crashed
    /\ UNCHANGED notPool
    /\ wpc[w] = "select"
    /\ ctxDone
    /\ WorkerReturn(w)

\* processJob up to the result: the rate limiter, the request, the worker's
\* statistics and the pool's CompletedJobs.  The outcome of the request
\* does not change what processJob does next.
WorkerProcess(w) ==
    /\ ~crashed
    /\ UNCHANGED notPool
    /\ wpc[w] = "proc"
    /\ completedJobs' = completedJobs + 1
    /\ wpc' = [wpc EXCEPT ![w] = "send"]
    /\ UNCHANGED <<config, running, ctxDone, jobQueue, jqClosed, resultQueue, rqClosed,
                   quitClosed, wg, wjob, statsPc, sub, delivered, totalJobs, ctl,
                   crashed>>

\* processJob's select, case w.pool.resultQueue <- result, followed by the
\* non-blocking send on the job's ResultChan (dropped when it has no room).
WorkerSendResult(w) ==
    /\ ~crashed
    /\ UNCHANGED notPool
    /\ wpc[w] = "send"
    /\ ~rqClosed
    /\ Len(resultQueue) < RequestBuffer
    /\ resultQueue' = Append(resultQueue, wjob[w])
    /\ delivered' = [delivered EXCEPT ![wjob[w]] =
                        IF @ < ResultChanCap(wjob[w]) THEN @ + 1 ELSE @]
    /\ wpc' = [wpc EXCEPT ![w] = "select"]
    /\ wjob' = [wjob EXCEPT ![w] = NoJob]
    /\ UNCHANGED <<config, running, ctxDone, jobQueue, jqClosed, rqClosed, quitClosed,
                   wg, statsPc, sub, totalJobs, completedJobs, ctl, crashed>>

\* processJob's select, case w.pool.resultQueue <- result on a closed
\* channel: panic.
WorkerSendClosed(w) ==
    /\ ~crashed
    /\ UNCHANGED notPool
    /\ wpc[w] = "send"
    /\ rqClosed
    /\ crashed' = TRUE
    /\ UNCHANGED <<config, running, ctxDone, jobQueue, jqClosed, resultQueue, rqClosed,
                   quitClosed, wg, wpc, wjob, statsPc, sub, delivered, totalJobs,
                   completedJobs, ctl>>

\* processJob's select, case <-w.pool.ctx.Done(): return without a result
\* on resultQueue or on the job's ResultChan.
WorkerSendCancelled(w) ==
    /\ ~crashed
    /\ UNCHANGED notPool
    /\ wpc[w] = "send"
    /\ ctxDone
    /\ wpc' = [wpc EXCEPT ![w] = "select"]
    /\ wjob' = [wjob EXCEPT ![w] = NoJob]
    /\ UNCHANGED <<config, running, ctxDone, jobQueue, jqClosed, resultQueue, rqClosed,
                   quitClosed, wg, statsPc, sub, delivered, totalJobs, completedJobs,
                   ctl, crashed>>

\* statsUpdater's select, case <-wp.ctx.Done(): return (wg.Done()).  Its
\* ticker case only refreshes AverageLatency and QueueLength.
StatsUpdaterReturn ==
    /\ ~crashed
    /\ UNCHANGED notPool
    /\ statsPc = "run"
    /\ ctxDone
    /\ statsPc' = "exited"
    /\ wg' = wg - 1
    /\ UNCHANGED <<config, running, ctxDone, jobQueue, jqClosed, resultQueue, rqClosed,
                   quitClosed, wpc, wjob, sub, delivered, totalJobs, completedJobs,
                   ctl, crashed>>

\* GetResult's select, case result := <-wp.resultQueue with a result.
GetResult ==
    /\ ~crashed
    /\ UNCHANGED notPool
    /\ Len(resultQueue) > 0
    /\ resultQueue' = Tail(resultQueue)
    /\ UNCHANGED <<config, running, ctxDone, jobQueue, jqClosed, rqClosed, quitClosed,
                   wg, wpc, wjob, statsPc, sub, delivered, totalJobs, completedJobs,
                   ctl, crashed>>

PoolNext ==
    \/ Start
    \/ StopBegin
    \/ StopCancel
    \/ StopCloseJobs
    \/ StopCloseQuit
    \/ StopWait
    \/ \E j \in Jobs : SubmitCheck(j)
    \/ \E j \in Jobs : SubmitSend(j)
    \/ \E j \in Jobs : SubmitSendClosed(j)
    \/ \E j \in Jobs : SubmitShutdown(j)
    \/ \E j \in Jobs : SubmitFull(j)
    \/ \E w \in Workers : WorkerTake(w)
    \/ \E w \in Workers : WorkerQueueClosed(w)
    \/ \E w \in Workers : WorkerQuit(w)
    \/ \E w \in Workers : WorkerCtxDone(w)
    \/ \E w \in Workers : WorkerProcess(w)
    \/ \E w \in Workers : WorkerSendResult(w)
    \/ \E w \in Workers : WorkerSendClosed(w)
    \/ \E w \in Workers : WorkerSendCancelled(w)
    \/ StatsUpdaterReturn
    \/ GetResult

SpecPool == PoolInit /\ [][PoolNext]_vars

(***************************************************************************)
(* Claims about the WorkerPool (checked under SpecPool)                    *)
(***************************************************************************)
\* Stop has returned nil and the pool has not been started again.
Stopped == rqClosed /\ ctl = "idle" /\ ~running

\* The SubmitJob call for job j returns (or panics) in this step.
SubmitReturns(j) == sub[j] = "select" /\ sub'[j] # "select"

\* Worker w starts a job in this step.
TakeStep(w) == wpc[w] = "select" /\ wpc'[w] = "proc"

\* Job j is nowhere in the pool and no result for it was published.
NoTraceOf(j) ==
    /\ j \notin SeqToSet(jobQueue)
    /\ j \notin SeqToSet(resultQueue)
    /\ \A w \in Workers : wjob[w] # j
    /\ delivered[j] = 0

\* C1: every job SubmitJob accepted gets exactly one result on its
\* ResultChan, also when Stop is called while the job waits in the queue or
\* is being processed.  Stated on the final state: once Stop has returned,
\* every accepted job has its one result.
C1_ExactlyOneResult ==
    (rqClosed /\ ctl = "idle") =>
        \A j \in Jobs : sub[j] = "accepted" => delivered[j] = 1

\* Once Stop has returned no further result reaches any ResultChan: a job
\* without a result at that point never gets one.
C1_NoResultAfterStop == [][rqClosed => delivered' = delivered]_vars

\* C2: the number of jobs being processed never exceeds the configured
\* MaxConcurrent, for every MaxConcurrent and WorkerPoolSize.
C2_InFlightWithinMaxConcurrent == Cardinality(InFlight) <= config.MaxConcurrent

C7_StopContract ==
    /\ [](ctl # "idle" => ~running)
    /\ [](Stopped =>
            /\ InFlight = {}
            /\ \A w \in Workers : wpc[w] \in {"off", "exited"}
            /\ statsPc # "run")
    /\ [][rqClosed =>
            /\ \A j \in Jobs : sub'[j] = "accepted" => sub[j] = "accepted"
            /\ SeqToSet(jobQueue') \subseteq SeqToSet(jobQueue)]_vars
    /\ [][\A j \in Jobs :
            (Stopped /\ sub[j] = "new" /\ sub'[j] # "new") =>
                (sub'[j] = "notRunning" /\ jobQueue' = jobQueue)]_vars

\* C7 witness: Stop has returned while a job that a worker had taken was
\* cancelled at its result, and a later SubmitJob was rejected.
C7_Witness ==
    /\ Stopped
    /\ \E k \in Jobs : sub[k] = "accepted" /\ NoTraceOf(k)
    /\ \E j \in Jobs : sub[j] = "notRunning"

C30_NoChannelPanic == ~crashed

\* C38: between SubmitJob calls the pool statistics are conserved: TotalJobs
\* is the number of jobs SubmitJob has accepted, and it equals CompletedJobs
\* plus the jobs waiting in the queue plus the jobs being processed, so
\* that a rejected submission has changed no counter.
C38_StatsConserved ==
    (\A j \in Jobs : sub[j] # "select")
        => /\ totalJobs = Cardinality({j \in Jobs : sub[j] = "accepted"})
           /\ totalJobs = completedJobs + Len(jobQueue)
                             + Cardinality({w \in Workers : wpc[w] = "proc"})

(***************************************************************************)
(* ProxyHealthChecker (advanced.go) and ProxyRotator (GetNext,             *)
(* getHealthyProxy)                                                        *)
(*                                                                         *)
(* pr is the ProxyRotator: proxies, current, mode and failedCount are its  *)
(* fields; pc, healthyProxies and ret belong to the GetNext call in        *)
(* progress (GetNext holds pr.mutex, so there is one at a time); panicked  *)
(* says that a call on the rotator has panicked.                           *)
(* phc is the ProxyHealthChecker: proxies is its ProxyHealth map, pending  *)
(* the proxies with a CheckProxyHealth goroutine under way, probes the     *)
(* number of probe results recorded; consec counts, for each proxy, the    *)
(* failed probes since its last successful one.                            *)
(***************************************************************************)
\* Number of proxy URLs that can be configured.
NumProxies == 2
\* Number of probe results recorded in one behaviour.
MaxProbes == 3
\* Probe latencies are 0..MaxLatency, in units of ten seconds.
MaxLatency == 2
\* ProxyHealthConfig.MaxFailures of the checker under study.
MaxFailures == 2
\* recordSuccess: a latency above 10*time.Second degrades the proxy.
TenSeconds == 1

Proxies == 1..NumProxies
NoProxy == 0
Latencies == 0..MaxLatency

\* The proxies the rotator and the health checker know.
Registered == SeqToSet(pr.proxies)

\* AddProxy: the record a proxy starts with.
AddProxy == [IsHealthy |-> TRUE, Latency |-> 0, FailureCount |-> 0,
             SuccessCount |-> 0, Status |-> "active"]

\* NewProxyHealthChecker followed by AddProxy for every proxy.
NewProxyHealthChecker ==
    [proxies |-> [p \in Proxies |-> AddProxy],
     pending |-> {},
     probes |-> 0,
     consec |-> [p \in Proxies |-> 0]]

\* NewProxyRotator(the first n proxy URLs, mode).
NewProxyRotator(n, mode) ==
    [proxies |-> [k \in 1..n |-> k],
     current |-> 0,
     mode |-> mode,
     failedCount |-> [p \in Proxies |-> 0],
     pc |-> "idle",
     healthyProxies |-> {},
     ret |-> NoProxy,
     panicked |-> FALSE]

\* recordSuccess: count the success, store the latency, set the status from
\* the latency alone and mark the proxy healthy.
recordSuccess(h, lat) ==
    [h EXCEPT !.SuccessCount = @ + 1,
              !.Latency = lat,
              !.Status = IF lat > TenSeconds THEN "degraded" ELSE "active",
              !.IsHealthy = TRUE]

\* The failure threshold test of recordFailure, on the counters as updated.
ThresholdReached(h) == h.FailureCount - h.SuccessCount >= MaxFailures

\* recordFailure: count the failure; failed at the threshold, degraded
\* (IsHealthy untouched) below it.
recordFailure(h) ==
    LET g == [h EXCEPT !.FailureCount = @ + 1]
    IN  IF ThresholdReached(g)
        THEN [g EXCEPT !.IsHealthy = FALSE, !.Status = "failed"]
        ELSE [g EXCEPT !.Status = "degraded"]

\* GetHealthyProxies on a health map.
GetHealthyProxies(hm) ==
    {p \in Registered : hm[p].IsHealthy /\ hm[p].Status = "active"}

\* The proxies of S with the lowest latency: what the scan of
\* getHealthyProxy can end on (the order of healthyProxies is a map order).
BestProxies(S) ==
    {p \in S : \A q \in S : phc.proxies[p].Latency <= phc.proxies[q].Latency}

\* runHealthChecks: a CheckProxyHealth goroutine for every known proxy.
RunHealthChecks ==
    /\ pr.mode = "HealthAware"
    /\ phc.probes < MaxProbes
    /\ phc.pending # Registered
    /\ phc' = [phc EXCEPT !.pending = Registered]
    /\ UNCHANGED <<pr, a, iq>>
    /\ UNCHANGED <<engineVars, clientVars>>

\* CheckProxyHealth, the request succeeded with status 200: recordSuccess.
ProbeSucceeds(p, lat) ==
    /\ p \in phc.pending
    /\ phc.probes < MaxProbes
    /\ phc' = [phc EXCEPT !.proxies[p] = recordSuccess(@, lat),
                          !.consec[p] = 0,
                          !.pending = @ \ {p},
                          !.probes = @ + 1]
    /\ UNCHANGED <<pr, a, iq>>
    /\ UNCHANGED <<engineVars, clientVars>>

\* CheckProxyHealth, the request failed or answered another status:
\* recordFailure.
ProbeFails(p) ==
    /\ p \in phc.pending
    /\ phc.probes < MaxProbes
    /\ phc' = [phc EXCEPT !.proxies[p] = recordFailure(@),
                          !.consec[p] = @ + 1,
                          !.pending = @ \ {p},
                          !.probes = @ + 1]
    /\ UNCHANGED <<pr, a, iq>>
    /\ UNCHANGED <<engineVars, clientVars>>

\* The assignments of EnableProxy without the reset of FailureCount.
Enabled_KeepFailures(h) == [h EXCEPT !.IsHealthy = TRUE, !.Status = "active"]

\* The assignments of EnableProxy: healthy, active, FailureCount cleared.
Enabled(h) == [h EXCEPT !.IsHealthy = TRUE, !.Status = "active", !.FailureCount = 0]

\* EnableProxy on a proxy the checker knows.
EnableProxy(p) ==
    /\ p \in Registered
    /\ phc' = [phc EXCEPT !.proxies[p] = Enabled(@)]
    /\ UNCHANGED <<pr, a, iq>>
    /\ UNCHANGED <<engineVars, clientVars>>

\* DisableProxy: unhealthy, disabled.
DisableProxy(p) ==
    /\ p \in Registered
    /\ phc' = [phc EXCEPT !.proxies[p] = [@ EXCEPT !.IsHealthy = FALSE,
                                                   !.Status = "disabled"]]
    /\ UNCHANGED <<pr, a, iq>>
    /\ UNCHANGED <<engineVars, clientVars>>

\* A caller enters GetNext and takes pr.mutex.
GetNextCall ==
    /\ ~pr.panicked
    /\ pr.pc = "idle"
    /\ pr' = [pr EXCEPT !.pc = "call"]
    /\ UNCHANGED <<phc, a, iq>>
    /\ UNCHANGED <<engineVars, clientVars>>

\* GetNext with no proxy configured returns "".
GetNextEmpty ==
    /\ pr.pc = "call"
    /\ Len(pr.proxies) = 0
    /\ pr' = [pr EXCEPT !.ret = NoProxy, !.pc = "idle"]
    /\ UNCHANGED <<phc, a, iq>>
    /\ UNCHANGED <<engineVars, clientVars>>

\* getHealthyProxy: healthyProxies := GetHealthyProxies().
GetNextSnapshot ==
    /\ pr.pc = "call"
    /\ Len(pr.proxies) > 0
    /\ pr.mode = "HealthAware"
    /\ pr' = [pr EXCEPT !.healthyProxies = GetHealthyProxies(phc.proxies),
                        !.pc = "pick"]
    /\ UNCHANGED <<phc, a, iq>>
    /\ UNCHANGED <<engineVars, clientVars>>

\* getHealthyProxy, the rest: with no healthy proxy "use any proxy", the one
\* at pr.current, and advance; otherwise one of the lowest latency, read now.
GetNextPick ==
    /\ pr.pc = "pick"
    /\ IF pr.healthyProxies = {}
       THEN pr' = [pr EXCEPT !.ret = pr.proxies[pr.current + 1],
                             !.current = (pr.current + 1) % Len(pr.proxies),
                             !.healthyProxies = {},
                             !.pc = "idle"]
       ELSE \E p \in BestProxies(pr.healthyProxies) :
                pr' = [pr EXCEPT !.ret = p,
                                 !.healthyProxies = {},
                                 !.pc = "idle"]
    /\ UNCHANGED <<phc, a, iq>>
    /\ UNCHANGED <<engineVars, clientVars>>

\* NewProxyRotator(proxies, HealthAware), every proxy added to the checker;
\* the pool, the scraper and the queue stay as built.
HealthInit ==
    /\ \E n \in 0..NumProxies : pr = NewProxyRotator(n, "HealthAware")
    /\ phc = NewProxyHealthChecker
    /\ PoolOff
    /\ RetryOff
    /\ QueueOff
    /\ BucketOff
    /\ MemoryOff
    /\ CliOff
    /\ ScraperOff

HealthNext ==
    \/ RunHealthChecks
    \/ \E p \in Proxies, lat \in Latencies : ProbeSucceeds(p, lat)
    \/ \E p \in Proxies : ProbeFails(p)
    \/ \E p \in Proxies : EnableProxy(p)
    \/ \E p \in Proxies : DisableProxy(p)
    \/ GetNextCall
    \/ GetNextEmpty
    \/ GetNextSnapshot
    \/ GetNextPick

SpecHealth == HealthInit /\ [][HealthNext]_vars

\* The health checker on its own: probes and the operator's EnableProxy and
\* DisableProxy, with no GetNext call on the rotator.
CheckerNext ==
    \/ RunHealthChecks
    \/ \E p \in Proxies, lat \in Latencies : ProbeSucceeds(p, lat)
    \/ \E p \in Proxies : ProbeFails(p)
    \/ \E p \in Proxies : EnableProxy(p)
    \/ \E p \in Proxies : DisableProxy(p)

SpecChecker == HealthInit /\ [][CheckerNext]_vars

(***************************************************************************)
(* Claims about proxy health (checked under SpecHealth; C17 under          *)
(* SpecChecker)                                                            *)
(***************************************************************************)
\* The step on which GetNext returns a proxy.
GetNextReturns == pr.pc # "idle" /\ pr'.pc = "idle" /\ pr'.ret # NoProxy

\* A probe result for p is recorded on this step.
ProbeRecorded(p) ==
    \/ phc'.proxies[p].SuccessCount = phc.proxies[p].SuccessCount + 1
    \/ phc'.proxies[p].FailureCount = phc.proxies[p].FailureCount + 1

\* C3: in HealthAware mode GetNext never returns a proxy whose status is
\* failed.
C3_NeverReturnsFailed ==
    [][(pr.mode = "HealthAware" /\ GetNextReturns)
         => phc'.proxies[pr'.ret].Status # "failed"]_vars

\* C4: a failed probe leaves the proxy failed exactly when the failed probes
\* in a row since its last successful probe have reached MaxFailures.
C4_FailedAtConsecutiveThreshold ==
    [][\A p \in Proxies :
         phc'.proxies[p].FailureCount = phc.proxies[p].FailureCount + 1
           => (phc'.proxies[p].Status = "failed" <=> phc'.consec[p] >= MaxFailures)]_vars

\* C5: a probe result recorded for a disabled proxy leaves it disabled and
\* out of the healthy proxies.
C5_DisabledStaysDisabled ==
    [][\A p \in Proxies :
         (phc.proxies[p].Status = "disabled" /\ ProbeRecorded(p))
           => /\ phc'.proxies[p].Status = "disabled"
              /\ p \notin GetHealthyProxies(phc'.proxies)]_vars

\* C16: in HealthAware mode, when GetNext finds no active proxy the proxy it
\* returns is not disabled, and when every proxy is disabled it returns no
\* proxy.
C16_FallbackSkipsDisabled ==
    [][(pr.pc = "pick" /\ pr'.pc = "idle" /\ pr.healthyProxies = {}
          /\ GetHealthyProxies(phc.proxies) = {})
         => /\ pr'.ret # NoProxy => phc.proxies[pr'.ret].Status # "disabled"
            /\ (\A p \in Registered : phc.proxies[p].Status = "disabled")
                 => pr'.ret = NoProxy]_vars

\* C17 as stated: EnableProxy(p) leaves p active with FailureCount and
\* SuccessCount both zero.
C17_EnableResetsCounters ==
    [][\A p \in Proxies :
         EnableProxy(p) => /\ phc'.proxies[p].Status = "active"
                           /\ phc'.proxies[p].FailureCount = 0
                           /\ phc'.proxies[p].SuccessCount = 0]_vars

\* C17, amended: EnableProxy(p) leaves p healthy and active with
\* FailureCount zero; SuccessCount keeps the value it had.
C17_EnableResetsFailureCount ==
    [][\A p \in Proxies :
         EnableProxy(p)
           => /\ phc'.proxies[p].IsHealthy
              /\ phc'.proxies[p].Status = "active"
              /\ phc'.proxies[p].FailureCount = 0
              /\ phc'.proxies[p].SuccessCount = phc.proxies[p].SuccessCount]_vars

\* EnableProxy has acted on a proxy with successful and failed probes behind
\* it: FailureCount is zero although the last probe failed.
C17_Witness ==
    \E p \in Registered :
        /\ phc.proxies[p].Status = "active"
        /\ phc.proxies[p].FailureCount = 0
        /\ phc.proxies[p].SuccessCount > 0
        /\ phc.consec[p] > 0

\* C36: in every health record IsHealthy is true exactly when Status is
\* active or degraded (and false exactly when it is failed or disabled).
C36_HealthyMatchesStatus ==
    \A p \in Registered :
        phc.proxies[p].IsHealthy <=> phc.proxies[p].Status \in {"active", "degraded"}

(***************************************************************************)
(* AdvancedScraper.GetWithRetry and PostWithRetry, with the rotator's      *)
(* other modes and MarkFailed                                              *)
(*                                                                         *)
(* a is the AdvancedScraper and the one call made on it: retryCount,       *)
(* proxyURL and hasRotator (proxyRotator != nil) are its fields,           *)
(* transportProxy the proxy its transport is set to (0: direct); method    *)
(* ("GET": GetWithRetry, "POST": PostWithRetry), urlOK (http.NewRequest    *)
(* accepts targetURL) and valid (the proxy URLs configureProxy accepts)    *)
(* are the inputs; i, lastErr, pc, result belong to the call, and attempts *)
(* counts the requests handed to the HTTP client.  resultStatus and        *)
(* resultErr are what the returned pair carries: the StatusCode of the     *)
(* response (0: the response is nil) and the error wrapped ("none": the    *)
(* error is nil, "nil": an error wrapping a nil lastErr).  lastStatus is   *)
(* the status the last request was answered with (0: no response), and    *)
(* waits the backoff sleeps made so far, in seconds.                       *)
(***************************************************************************)
\* Largest a.retryCount tried.
MaxRetries == 3
\* backoff := time.Duration(i+1) * 2 * time.Second
BackoffFactor == 2
\* response.StatusCode < 500 ends the loop.
ServerErrorFloor == 500

\* Response statuses tried: 2xx, 4xx, 429 and 5xx.
Statuses == {200, 404, 429, 500}

\* GetNext, RotatePerRequest: the proxy at pr.current, then advance.
GetNextPerRequest ==
    /\ pr.pc = "call"
    /\ Len(pr.proxies) > 0
    /\ pr.mode = "RotatePerRequest"
    /\ pr' = [pr EXCEPT !.ret = pr.proxies[pr.current + 1],
                        !.current = (pr.current + 1) % Len(pr.proxies),
                        !.pc = "idle"]
    /\ UNCHANGED <<phc, a, iq>>
    /\ UNCHANGED <<engineVars, clientVars>>

\* GetNext, RotateOnError: the proxy at pr.current.
GetNextOnError ==
    /\ pr.pc = "call"
    /\ Len(pr.proxies) > 0
    /\ pr.mode = "RotateOnError"
    /\ pr' = [pr EXCEPT !.ret = pr.proxies[pr.current + 1], !.pc = "idle"]
    /\ UNCHANGED <<phc, a, iq>>
    /\ UNCHANGED <<engineVars, clientVars>>

\* MarkFailed(p): count it, start a probe when health monitoring is on,
\* advance pr.current in the modes other than HealthAware.
MarkFailed(p) ==
    /\ pr' = [pr EXCEPT !.failedCount[p] = @ + 1,
                        !.current = IF pr.mode # "HealthAware"
                                    THEN (pr.current + 1) % Len(pr.proxies)
                                    ELSE pr.current]
    /\ phc' = [phc EXCEPT !.pending = IF pr.mode = "HealthAware"
                                      THEN @ \cup {p}
                                      ELSE @]

\* The loop condition i <= a.retryCount.
LoopContinues == a.i <= a.retryCount

\* The loop is over: return nil and "failed after r retries" wrapping
\* lastErr.
RetryExhausted ==
    /\ a.pc = "loop"
    /\ ~LoopContinues
    /\ a' = [a EXCEPT !.result = "error",
                      !.resultStatus = 0,
                      !.resultErr = a.lastErr,
                      !.pc = "done"]
    /\ UNCHANGED <<pr, phc, iq>>
    /\ UNCHANGED <<engineVars, clientVars>>

\* Top of an iteration with a rotator: call GetNext.
RetryRotate ==
    /\ a.pc = "loop"
    /\ LoopContinues
    /\ a.hasRotator
    /\ pr.pc = "idle"
    /\ pr' = [pr EXCEPT !.pc = "call"]
    /\ a' = [a EXCEPT !.pc = "getnext"]
    /\ UNCHANGED <<phc, iq>>
    /\ UNCHANGED <<engineVars, clientVars>>

\* Top of an iteration without a rotator: straight to the request.
RetryNoRotator ==
    /\ a.pc = "loop"
    /\ LoopContinues
    /\ ~a.hasRotator
    /\ a' = [a EXCEPT !.pc = "request"]
    /\ UNCHANGED <<pr, phc, iq>>
    /\ UNCHANGED <<engineVars, clientVars>>

\* GetNext returned "": nothing to configure.
RetryNoProxy ==
    /\ a.pc = "getnext"
    /\ pr.pc = "idle"
    /\ pr.ret = NoProxy
    /\ a' = [a EXCEPT !.pc = "request"]
    /\ UNCHANGED <<pr, phc, iq>>
    /\ UNCHANGED <<engineVars, clientVars>>

\* GetNext returned a proxy and configureProxy accepted it.
RetryConfigured ==
    /\ a.pc = "getnext"
    /\ pr.pc = "idle"
    /\ pr.ret # NoProxy
    /\ a.valid[pr.ret]
    /\ a' = [a EXCEPT !.proxyURL = pr.ret,
                      !.transportProxy = pr.ret,
                      !.pc = "request"]
    /\ UNCHANGED <<pr, phc, iq>>
    /\ UNCHANGED <<engineVars, clientVars>>

\* GetNext returned a proxy and configureProxy rejected it (unparsable URL
\* or unsupported scheme): MarkFailed, then continue, which runs i++.
RetryConfigureFails ==
    /\ a.pc = "getnext"
    /\ pr.pc = "idle"
    /\ pr.ret # NoProxy
    /\ ~a.valid[pr.ret]
    /\ MarkFailed(pr.ret)
    /\ a' = [a EXCEPT !.proxyURL = pr.ret,
                      !.i = @ + 1,
                      !.pc = "loop"]
    /\ UNCHANGED iq
    /\ UNCHANGED <<engineVars, clientVars>>

\* PostWithRetry: http.NewRequest fails and the call returns at once.
PostNewRequestFails ==
    /\ a.pc = "request"
    /\ a.method = "POST"
    /\ ~a.urlOK
    /\ a' = [a EXCEPT !.result = "error",
                      !.resultStatus = 0,
                      !.resultErr = "err",
                      !.pc = "done"]
    /\ UNCHANGED <<pr, phc, iq>>
    /\ UNCHANGED <<engineVars, clientVars>>

\* a.Get or client.Do is reached.
RequestReached == a.method = "POST" => a.urlOK

\* err == nil && StatusCode < 500.
EndsLoop(st) == st < ServerErrorFloor

\* The request returned no error and a status below 500: the response is
\* returned.
RequestSucceeds(st) ==
    /\ a.pc = "request"
    /\ RequestReached
    /\ EndsLoop(st)
    /\ a' = [a EXCEPT !.attempts = @ + 1,
                      !.lastStatus = st,
                      !.result = "response",
                      !.resultStatus = st,
                      !.resultErr = "none",
                      !.pc = "done"]
    /\ UNCHANGED <<pr, phc, iq>>
    /\ UNCHANGED <<engineVars, clientVars>>

\* PostWithRetry: the status is below 500 but reading the body fails.
PostBodyReadFails(st) ==
    /\ a.pc = "request"
    /\ a.method = "POST"
    /\ RequestReached
    /\ EndsLoop(st)
    /\ a' = [a EXCEPT !.attempts = @ + 1,
                      !.lastStatus = st,
                      !.result = "error",
                      !.resultStatus = 0,
                      !.resultErr = "err",
                      !.pc = "done"]
    /\ UNCHANGED <<pr, phc, iq>>
    /\ UNCHANGED <<engineVars, clientVars>>

\* The sleep after the failed iteration k, in seconds.
Backoff(k) == (k + 1) * BackoffFactor

\* The request returned an error (st = 0) or a status of 500 or above:
\* MarkFailed the proxy in use, remember err, back off if an iteration is
\* left, i++.
RequestFails(st) ==
    /\ a.pc = "request"
    /\ RequestReached
    /\ ~EndsLoop(st) \/ st = 0
    /\ IF a.hasRotator /\ a.proxyURL # NoProxy
       THEN MarkFailed(a.proxyURL)
       ELSE UNCHANGED <<pr, phc>>
    /\ a' = [a EXCEPT !.attempts = @ + 1,
                      !.lastStatus = st,
                      !.lastErr = IF st = 0 THEN "err" ELSE "nil",
                      !.waits = IF a.i < a.retryCount
                                THEN Append(@, Backoff(a.i))
                                ELSE @,
                      !.i = @ + 1,
                      !.pc = "loop"]
    /\ UNCHANGED iq
    /\ UNCHANGED <<engineVars, clientVars>>

\* The scraper as one call of GetWithRetry or PostWithRetry finds it.
NewAdvancedScraper(r, m, u, hr, v) ==
    [retryCount |-> r, method |-> m, urlOK |-> u, hasRotator |-> hr,
     valid |-> v, i |-> 0, pc |-> "loop", attempts |-> 0, lastErr |-> "nil",
     result |-> "none", proxyURL |-> NoProxy, transportProxy |-> NoProxy,
     lastStatus |-> 0, resultStatus |-> 0, resultErr |-> "none", waits |-> <<>>]

\* One call of GetWithRetry or PostWithRetry on a scraper built with or
\* without WithProxyRotation.  NewProxyRotator has started the health
\* checker in HealthAware mode, whose loop begins with a probe of every
\* proxy; the next round is CheckInterval (five minutes) away and is left
\* out of this specification.
RetryInit ==
    /\ \E r \in 0..MaxRetries, m \in {"GET", "POST"}, u \in BOOLEAN,
          v \in [Proxies -> BOOLEAN] :
          \E hr \in BOOLEAN, n \in 0..NumProxies,
             mode \in {"RotatePerRequest", "RotateOnError", "HealthAware"} :
              /\ m = "GET" => u
              /\ ~hr => (n = 0 /\ mode = "RotatePerRequest")
              /\ \A p \in Proxies : p > n => v[p]
              /\ a = NewAdvancedScraper(r, m, u, hr, v)
              /\ pr = NewProxyRotator(n, mode)
              /\ phc = [NewProxyHealthChecker EXCEPT
                          !.pending = IF mode = "HealthAware" THEN 1..n ELSE {}]
    /\ PoolOff
    /\ QueueOff
    /\ BucketOff
    /\ MemoryOff
    /\ CliOff
    /\ ScraperOff

RetryNext ==
    \/ RetryExhausted
    \/ RetryRotate
    \/ RetryNoRotator
    \/ GetNextEmpty
    \/ GetNextPerRequest
    \/ GetNextOnError
    \/ GetNextSnapshot
    \/ GetNextPick
    \/ RetryNoProxy
    \/ RetryConfigured
    \/ RetryConfigureFails
    \/ PostNewRequestFails
    \/ \E st \in Statuses : RequestSucceeds(st)
    \/ \E st \in Statuses : PostBodyReadFails(st)
    \/ \E st \in Statuses \cup {0} : RequestFails(st)
    \/ \E p \in Proxies, lat \in Latencies : ProbeSucceeds(p, lat)
    \/ \E p \in Proxies : ProbeFails(p)

SpecRetry == RetryInit /\ [][RetryNext]_vars

(***************************************************************************)
(* Claims about the retry loop (checked under SpecRetry)                   *)
(***************************************************************************)
\* C10: when the call has returned it has made at least one and at most
\* retryCount + 1 attempts, and exactly one when retryCount is 0.
C10_AttemptsBetweenOneAndRPlusOne ==
    a.pc = "done" => /\ a.attempts >= 1
                     /\ a.attempts <= a.retryCount + 1
                     /\ (a.retryCount = 0 => a.attempts = 1)

\* The upper half of C10 on its own: never more than retryCount + 1
\* attempts.
AttemptsAtMostRPlusOne == a.attempts <= a.retryCount + 1

\* The call has returned because the loop ran out of iterations.
Exhausted == a.pc = "done" /\ a.result = "error" /\ a.i > a.retryCount

\* C11: a 429 response is returned as the result only when no attempt
\* remains.
C11_TooManyRequestsRetried ==
    (a.pc = "done" /\ a.result = "response" /\ a.resultStatus = 429)
        => a.i >= a.retryCount

\* C12: when GetWithRetry returns because every attempt failed, the failure
\* carries the status of the last attempt if that attempt was answered, and
\* its error otherwise.
C12_FailureCarriesLastAttempt ==
    (Exhausted /\ a.method = "GET" /\ a.attempts > 0)
        => IF a.lastStatus # 0
           THEN a.resultStatus = a.lastStatus
           ELSE a.resultErr = "err"

\* C13: every backoff wait is twice the wait before it.
C13_BackoffDoubles ==
    \A k \in 1..(Len(a.waits) - 1) : a.waits[k + 1] = 2 * a.waits[k]

(***************************************************************************)
(* ProxyRotator in the RotatePerRequest and RotateOnError modes, called    *)
(* through its public methods GetNext, MarkFailed and MarkSuccess          *)
(***************************************************************************)
\* Largest pr.failedCount of a proxy.
MaxMarks == 2

\* MarkFailed(p) called by any user of the rotator, under pr.mutex.  With an
\* empty proxy list the modes other than HealthAware divide by zero.
MarkFailedCall(p) ==
    /\ ~pr.panicked
    /\ pr.pc = "idle"
    /\ pr.failedCount[p] < MaxMarks
    /\ IF Len(pr.proxies) = 0 /\ pr.mode # "HealthAware"
       THEN /\ pr' = [pr EXCEPT !.failedCount[p] = @ + 1, !.panicked = TRUE]
            /\ UNCHANGED phc
       ELSE MarkFailed(p)
    /\ UNCHANGED <<a, iq>>
    /\ UNCHANGED <<engineVars, clientVars>>

\* MarkSuccess(p, latency): with or without health monitoring the body does
\* nothing.
MarkSuccess(p) ==
    /\ ~pr.panicked
    /\ pr.pc = "idle"
    /\ UNCHANGED <<pr, phc, a, iq>>
    /\ UNCHANGED <<engineVars, clientVars>>

\* NewProxyRotator(proxies, RotatePerRequest or RotateOnError): no health
\* checker is created.
RotateInit ==
    /\ \E n \in 0..NumProxies, mode \in {"RotatePerRequest", "RotateOnError"} :
          pr = NewProxyRotator(n, mode)
    /\ phc = NewProxyHealthChecker
    /\ PoolOff
    /\ RetryOff
    /\ QueueOff
    /\ BucketOff
    /\ MemoryOff
    /\ CliOff
    /\ ScraperOff

RotateNext ==
    \/ GetNextCall
    \/ GetNextEmpty
    \/ GetNextPerRequest
    \/ GetNextOnError
    \/ \E p \in Proxies : MarkFailedCall(p)
    \/ \E p \in Proxies : MarkSuccess(p)

SpecRotate == RotateInit /\ [][RotateNext]_vars

(***************************************************************************)
(* Claims about rotation (checked under SpecRotate)                        *)
(***************************************************************************)
\* The proxy at pr.current.
CurrentProxy == pr.proxies[pr.current + 1]

\* C14: in per-request mode every GetNext returns the proxy that follows, in
\* list order and wrapping around, the one the GetNext before it returned
\* (the first of the list for the first call).
C14_PerRequestListOrder ==
    [][(pr.mode = "RotatePerRequest" /\ GetNextReturns)
         => pr'.ret = (pr.ret % Len(pr.proxies)) + 1]_vars

\* C15: in on-error mode GetNext returns the current proxy and leaves it
\* current, and pr.current changes only on a step that reports a failure of
\* the current proxy.
C15_OnErrorSticky ==
    [][(pr.mode = "RotateOnError" /\ Len(pr.proxies) > 0)
         => /\ GetNextReturns => (pr'.ret = CurrentProxy /\ pr'.current = pr.current)
            /\ pr'.current # pr.current
                 => pr'.failedCount[CurrentProxy] = pr.failedCount[CurrentProxy] + 1]_vars

\* C37: GetNext and MarkFailed never panic, and with a non-empty proxy list
\* 0 <= pr.current < len(pr.proxies).
C37_NoCrashIndexInRange ==
    /\ ~pr.panicked
    /\ Len(pr.proxies) > 0 => (0 <= pr.current /\ pr.current < Len(pr.proxies))

(***************************************************************************)
(* TokenBucket: NewTokenBucket, WaitForToken as the workers' processJob    *)
(* calls it                                                                *)
(*                                                                         *)
(* tb is the pool's rateLimiter: capacity, tokens and refillRate are its   *)
(* fields, sinceRefill is now - lastRefill counted in sleeps of            *)
(* WaitForToken (100 ms); pc is the position of each worker (idle, sleep:  *)
(* in time.Sleep with tb.mutex released, woken: the sleep is over,         *)
(* request: WaitForToken has returned, exited: Worker.start has returned), *)
(* jobs the number of processJob calls begun, taken the number of tokens   *)
(* consumed, ctxDone that Stop has cancelled the pool's context.           *)
(***************************************************************************)
\* Largest RateLimitPerSec tried.
MaxRate == 2
\* Number of processJob calls in one behaviour.
NumBucketJobs == 3
\* time.Sleep(100 * time.Millisecond): ten sleeps to the second.
SleepsPerSecond == 10

\* RateLimitPerSec: int(*requestsPerSecond), 0 for a flag value below 1.
Rates == 0..MaxRate

\* NewTokenBucket(requestsPerSec), with the pool's workers idle.
NewTokenBucket(requestsPerSec) ==
    [capacity |-> requestsPerSec,
     tokens |-> requestsPerSec,
     refillRate |-> requestsPerSec,
     sinceRefill |-> 0,
     pc |-> [w \in Workers |-> "idle"],
     jobs |-> 0,
     taken |-> 0,
     ctxDone |-> FALSE]

\* tokensToAdd := int(timePassed.Seconds()) * tb.refillRate.
TokensToAdd(b) == (b.sinceRefill \div SleepsPerSecond) * b.refillRate

\* The limit the refill applies to tb.tokens, without the cap.
Capped_NoCap(n, capacity) == n

\* if tb.tokens > tb.capacity { tb.tokens = tb.capacity }.
Capped(n, capacity) == IF n > capacity THEN capacity ELSE n

\* The refill of WaitForToken: when tokensToAdd > 0, add, cap, lastRefill = now.
Refilled(b) ==
    IF TokensToAdd(b) > 0
    THEN [b EXCEPT !.tokens = Capped(b.tokens + TokensToAdd(b), b.capacity),
                   !.sinceRefill = 0]
    ELSE b

\* After the refill, under tb.mutex: with no token, unlock and sleep; with
\* one, consume it and return.
TokenOrSleep(b, w) ==
    IF Refilled(b).tokens <= 0
    THEN [Refilled(b) EXCEPT !.pc[w] = "sleep"]
    ELSE [Refilled(b) EXCEPT !.tokens = @ - 1, !.taken = @ + 1, !.pc[w] = "request"]

\* A worker has received a job and processJob calls WaitForToken: lock,
\* refill, then the first test of the loop.
WaitForToken(w) ==
    /\ tb.pc[w] = "idle"
    /\ tb.jobs < NumBucketJobs
    /\ tb' = [TokenOrSleep(tb, w) EXCEPT !.jobs = @ + 1]
    /\ UNCHANGED <<pr, phc, a, iq, mo>>
    /\ UNCHANGED <<poolVars, clientVars>>

\* 100 ms pass: every time.Sleep under way is over.  An interval of a second
\* or more refills the bucket to capacity whatever its length, so
\* sinceRefill stops at one second.
Tick ==
    /\ tb' = [tb EXCEPT !.sinceRefill = IF @ < SleepsPerSecond THEN @ + 1 ELSE @,
                        !.pc = [w \in Workers |->
                                  IF tb.pc[w] = "sleep" THEN "woken" ELSE tb.pc[w]]]
    /\ UNCHANGED <<pr, phc, a, iq, mo>>
    /\ UNCHANGED <<poolVars, clientVars>>

\* WaitForToken, the loop body after the sleep: lock, refill, test again.
WaitForTokenRetry(w) ==
    /\ tb.pc[w] = "woken"
    /\ tb' = TokenOrSleep(tb, w)
    /\ UNCHANGED <<pr, phc, a, iq, mo>>
    /\ UNCHANGED <<poolVars, clientVars>>

\* The rest of processJob: the request is made and the worker is back at its
\* select.
ProcessJobReturn(w) ==
    /\ tb.pc[w] = "request"
    /\ tb' = [tb EXCEPT !.pc[w] = "idle"]
    /\ UNCHANGED <<pr, phc, a, iq, mo>>
    /\ UNCHANGED <<poolVars, clientVars>>

\* Stop: wp.cancel().
BucketStop ==
    /\ ~tb.ctxDone
    /\ tb' = [tb EXCEPT !.ctxDone = TRUE]
    /\ UNCHANGED <<pr, phc, a, iq, mo>>
    /\ UNCHANGED <<poolVars, clientVars>>

\* Worker.start's select, case <-w.pool.ctx.Done(): return.
BucketWorkerExit(w) ==
    /\ tb.pc[w] = "idle"
    /\ tb.ctxDone
    /\ tb' = [tb EXCEPT !.pc[w] = "exited"]
    /\ UNCHANGED <<pr, phc, a, iq, mo>>
    /\ UNCHANGED <<poolVars, clientVars>>

\* NewWorkerPool's rate limiter for a rate of 0..MaxRate.
BucketInit ==
    /\ \E r \in Rates : tb = NewTokenBucket(r)
    /\ PoolOff
    /\ ProxyOff
    /\ RetryOff
    /\ QueueOff
    /\ MemoryOff
    /\ CliOff
    /\ ScraperOff

BucketNext ==
    \/ \E w \in Workers : WaitForToken(w)
    \/ Tick
    \/ \E w \in Workers : WaitForTokenRetry(w)
    \/ \E w \in Workers : ProcessJobReturn(w)
    \/ BucketStop
    \/ \E w \in Workers : BucketWorkerExit(w)

SpecBucket == BucketInit /\ [][BucketNext]_vars

\* Time passes and no goroutine that can run is held back for ever.
BucketFairness ==
    /\ WF_vars(Tick)
    /\ \A w \in Workers : WF_vars(WaitForTokenRetry(w))
    /\ \A w \in Workers : WF_vars(ProcessJobReturn(w))

SpecBucketLive == BucketInit /\ [][BucketNext]_vars /\ BucketFairness

(***************************************************************************)
(* Claims about the token bucket (checked under SpecBucket and             *)
(* SpecBucketLive)                                                         *)
(***************************************************************************)
\* Worker w is inside WaitForToken.
Waiting(w) == tb.pc[w] \in {"sleep", "woken"}

\* WaitForToken returns to worker w on this step.
TokenGranted(w) == tb.pc[w] \in {"idle", "woken"} /\ tb'.pc[w] = "request"

C19_WaitForTokenReturns ==
    \A w \in Workers : Waiting(w) ~> ~Waiting(w)

(***************************************************************************)
(* MemoryOptimizer: NewMemoryOptimizer, CheckMemoryUsage, and the caller   *)
(* that checks memory and then submits a job (main.go)                     *)
(*                                                                         *)
(* mo is the MemoryOptimizer: maxMemoryMB and gcThresholdMB are its        *)
(* fields, gcDue says that time.Since(lastGC) exceeds memoryCheckInterval, *)
(* currentMemoryMB is what runtime.ReadMemStats reports; pc is the         *)
(* position of the caller (idle, checked: CheckMemoryUsage has returned,   *)
(* blocked: inside forceGarbageCollection), high the value                 *)
(* CheckMemoryUsage returned, jobs the number of SubmitJob calls made and  *)
(* admitted the number of them that enqueued the job.                      *)
(***************************************************************************)
\* Largest maxMemoryMB tried.
MaxMemoryMB == 3
\* Number of jobs the caller submits.
NumMemJobs == 3

\* Memory use observed: from nothing to above every limit.
Allocations == 0..(MaxMemoryMB + 1)

\* NewMemoryOptimizer(maxMemoryMB) for a positive limit: the GC threshold is
\* half of it and lastGC is now.
NewMemoryOptimizer(maxMemoryMB) ==
    [maxMemoryMB |-> maxMemoryMB,
     gcThresholdMB |-> maxMemoryMB \div 2,
     gcDue |-> FALSE,
     currentMemoryMB |-> 0,
     pc |-> "idle",
     high |-> FALSE,
     jobs |-> 0,
     admitted |-> 0]

\* The program allocates or frees memory.
Allocate(m) ==
    /\ mo.pc # "off"
    /\ mo.currentMemoryMB # m
    /\ mo' = [mo EXCEPT !.currentMemoryMB = m]
    /\ UNCHANGED <<pr, phc, a, iq, tb>>
    /\ UNCHANGED <<poolVars, clientVars>>

\* memoryCheckInterval (30 s) has passed since lastGC.
IntervalPasses ==
    /\ mo.pc # "off"
    /\ ~mo.gcDue
    /\ mo' = [mo EXCEPT !.gcDue = TRUE]
    /\ UNCHANGED <<pr, phc, a, iq, tb>>
    /\ UNCHANGED <<poolVars, clientVars>>

\* CheckMemoryUsage decides to force a garbage collection.
GCForced == mo.currentMemoryMB > mo.gcThresholdMB /\ mo.gcDue

\* CheckMemoryUsage, under mo.mutex.RLock: above the GC threshold with the
\* interval over it calls forceGarbageCollection, whose mo.mutex.Lock() waits
\* for the read lock the caller itself holds; otherwise it returns
\* currentMemoryMB > maxMemoryMB.
CheckMemoryUsage ==
    /\ mo.pc = "idle"
    /\ mo.jobs < NumMemJobs
    /\ mo' = IF GCForced
             THEN [mo EXCEPT !.pc = "blocked"]
             ELSE [mo EXCEPT !.high = mo.currentMemoryMB > mo.maxMemoryMB,
                             !.pc = "checked"]
    /\ UNCHANGED <<pr, phc, a, iq, tb>>
    /\ UNCHANGED <<poolVars, clientVars>>

\* The caller logs a high reading and calls engine.SubmitJob(job) either
\* way; SubmitJob reads no memory figure, and the started pool with room in
\* its queue enqueues the job.
MainSubmitJob ==
    /\ mo.pc = "checked"
    /\ mo' = [mo EXCEPT !.jobs = @ + 1, !.admitted = @ + 1, !.pc = "idle"]
    /\ UNCHANGED <<pr, phc, a, iq, tb>>
    /\ UNCHANGED <<poolVars, clientVars>>

\* A memory optimizer with a limit of 1..MaxMemoryMB.
MemoryInit ==
    /\ \E m \in 1..MaxMemoryMB : mo = NewMemoryOptimizer(m)
    /\ PoolOff
    /\ ProxyOff
    /\ RetryOff
    /\ QueueOff
    /\ BucketOff
    /\ CliOff
    /\ ScraperOff

MemoryNext ==
    \/ \E m \in Allocations : Allocate(m)
    \/ IntervalPasses
    \/ CheckMemoryUsage
    \/ MainSubmitJob

SpecMemory == MemoryInit /\ [][MemoryNext]_vars

(***************************************************************************)
(* Claims about memory pressure (checked under SpecMemory)                 *)
(***************************************************************************)
\* C20: a SubmitJob call made while memory use is above the limit does not
\* admit the job.
C20_RejectsAboveLimit ==
    [][(mo'.jobs = mo.jobs + 1 /\ mo.currentMemoryMB > mo.maxMemoryMB)
         => mo'.admitted = mo.admitted]_vars

\* C31: CheckMemoryUsage always returns: it never waits for a lock that its
\* own caller holds.
C31_CheckMemoryUsageReturns == mo.pc # "blocked"

(***************************************************************************)
(* IntelligentQueue: EnqueueJob, DequeueJob, Close                         *)
(*                                                                         *)
(* iq is the IntelligentQueue: highPriority, normalPriority, lowPriority   *)
(* are its three buffered channels, closed the channels Close has closed,  *)
(* stats its QueueStats; nextId is the identity of the next job handed to  *)
(* EnqueueJob; dqPc, dqJob, dqOk are the position and the return values of *)
(* the DequeueJob call, clPc the position of the Close call; panicked      *)
(* says that a channel operation has panicked.                             *)
(***************************************************************************)
\* maxSize given to NewIntelligentQueue.
MaxQueueSize == 6
\* Number of jobs handed to EnqueueJob.
NumQJobs == 3
\* EnqueueJob: Priority >= 8 is high.
HighThreshold == 8
\* EnqueueJob: Priority >= 4 (and below 8) is normal.
NormalThreshold == 4

\* queueSize := maxSize / 3, the capacity of each of the three channels.
QueueSize == MaxQueueSize \div 3

\* Job priorities tried: both sides of each threshold.
Priorities == {NormalThreshold - 1, NormalThreshold, HighThreshold - 1, HighThreshold}

\* The switch of EnqueueJob.
ClassOf(prio) ==
    IF prio >= HighThreshold THEN "high"
    ELSE IF prio >= NormalThreshold THEN "normal"
    ELSE "low"

\* The channel of a class in queue q.
Channel(q, c) ==
    CASE c = "high" -> q.highPriority
      [] c = "normal" -> q.normalPriority
      [] OTHER -> q.lowPriority

\* Queue q with the channel of class c set to ch.
WithChannel(q, c, ch) ==
    CASE c = "high" -> [q EXCEPT !.highPriority = ch]
      [] c = "normal" -> [q EXCEPT !.normalPriority = ch]
      [] OTHER -> [q EXCEPT !.lowPriority = ch]

\* Queue q with the stats counter of class c incremented, as EnqueueJob does
\* before it tries to send.
Counted(q, c) ==
    CASE c = "high" -> [q EXCEPT !.stats.HighPriorityJobs = @ + 1]
      [] c = "normal" -> [q EXCEPT !.stats.NormalPriorityJobs = @ + 1]
      [] OTHER -> [q EXCEPT !.stats.LowPriorityJobs = @ + 1]

\* EnqueueJob, under iq.mutex, the send case: the channel has room.
EnqueueJob(prio) ==
    /\ ~iq.panicked
    /\ iq.nextId <= NumQJobs
    /\ ClassOf(prio) \notin iq.closed
    /\ Len(Channel(iq, ClassOf(prio))) < QueueSize
    /\ iq' = [WithChannel(Counted(iq, ClassOf(prio)), ClassOf(prio),
                          Append(Channel(iq, ClassOf(prio)),
                                 [id |-> iq.nextId, Priority |-> prio]))
                EXCEPT !.stats.TotalQueued = @ + 1,
                       !.nextId = @ + 1]
    /\ UNCHANGED <<pr, phc, a>>
    /\ UNCHANGED <<engineVars, clientVars>>

\* EnqueueJob, the default case: the channel is full and the job is dropped.
EnqueueJobDropped(prio) ==
    /\ ~iq.panicked
    /\ iq.nextId <= NumQJobs
    /\ ClassOf(prio) \notin iq.closed
    /\ Len(Channel(iq, ClassOf(prio))) >= QueueSize
    /\ iq' = [Counted(iq, ClassOf(prio)) EXCEPT !.stats.DroppedJobs = @ + 1,
                                                !.nextId = @ + 1]
    /\ UNCHANGED <<pr, phc, a>>
    /\ UNCHANGED <<engineVars, clientVars>>

\* EnqueueJob on a closed channel: the send panics.
EnqueueJobClosed(prio) ==
    /\ ~iq.panicked
    /\ iq.nextId <= NumQJobs
    /\ ClassOf(prio) \in iq.closed
    /\ iq' = [Counted(iq, ClassOf(prio)) EXCEPT !.panicked = TRUE]
    /\ UNCHANGED <<pr, phc, a>>
    /\ UNCHANGED <<engineVars, clientVars>>

\* A consumer enters DequeueJob.
DequeueJobCall ==
    /\ ~iq.panicked
    /\ iq.dqPc = "idle"
    /\ iq' = [iq EXCEPT !.dqPc = "high"]
    /\ UNCHANGED <<pr, phc, a>>
    /\ UNCHANGED <<engineVars, clientVars>>

\* The class polled after c; "idle" after the last: return nil, false.
AfterClass(c) ==
    CASE c = "high" -> "normal"
      [] c = "normal" -> "low"
      [] OTHER -> "idle"

\* One select of DequeueJob, on the channel of class dqPc: a waiting job is
\* received and returned; a closed empty channel yields nil, which is
\* returned with true; otherwise the default case goes on to the next class,
\* and after the last class nil, false is returned.
DequeueJobPoll ==
    /\ ~iq.panicked
    /\ iq.dqPc # "idle"
    /\ iq' = IF Len(Channel(iq, iq.dqPc)) > 0
             THEN [WithChannel(iq, iq.dqPc, Tail(Channel(iq, iq.dqPc)))
                     EXCEPT !.dqJob = Head(Channel(iq, iq.dqPc)),
                            !.dqOk = TRUE,
                            !.dqPc = "idle"]
             ELSE IF iq.dqPc \in iq.closed
             THEN [iq EXCEPT !.dqJob = NilJob, !.dqOk = TRUE, !.dqPc = "idle"]
             ELSE IF AfterClass(iq.dqPc) = "idle"
             THEN [iq EXCEPT !.dqJob = NilJob, !.dqOk = FALSE, !.dqPc = "idle"]
             ELSE [iq EXCEPT !.dqPc = AfterClass(iq.dqPc)]
    /\ UNCHANGED <<pr, phc, a>>
    /\ UNCHANGED <<engineVars, clientVars>>

\* Close is called.
CloseCall ==
    /\ ~iq.panicked
    /\ iq.clPc = "idle"
    /\ iq' = [iq EXCEPT !.clPc = "high"]
    /\ UNCHANGED <<pr, phc, a>>
    /\ UNCHANGED <<engineVars, clientVars>>

\* Close: one close(), on the channel of class clPc; closing a closed
\* channel panics.
CloseChannel ==
    /\ ~iq.panicked
    /\ iq.clPc # "idle"
    /\ iq' = IF iq.clPc \in iq.closed
             THEN [iq EXCEPT !.panicked = TRUE]
             ELSE [iq EXCEPT !.closed = @ \cup {iq.clPc},
                             !.clPc = AfterClass(iq.clPc)]
    /\ UNCHANGED <<pr, phc, a>>
    /\ UNCHANGED <<engineVars, clientVars>>

\* The queue alone: the pool, the rotator and the scraper stay as built.
QueueInit ==
    /\ QueueOff
    /\ BucketOff
    /\ MemoryOff
    /\ CliOff
    /\ ScraperOff
    /\ PoolOff
    /\ ProxyOff
    /\ RetryOff

QueueNext ==
    \/ \E prio \in Priorities : EnqueueJob(prio)
    \/ \E prio \in Priorities : EnqueueJobDropped(prio)
    \/ \E prio \in Priorities : EnqueueJobClosed(prio)
    \/ DequeueJobCall
    \/ DequeueJobPoll
    \/ CloseCall
    \/ CloseChannel

SpecQueue == QueueInit /\ [][QueueNext]_vars

(***************************************************************************)
(* Claims about the IntelligentQueue (checked under SpecQueue)             *)
(***************************************************************************)
\* A job is waiting in some class.
SomeJobWaiting ==
    Len(iq.highPriority) + Len(iq.normalPriority) + Len(iq.lowPriority) > 0

\* The oldest job of the highest class that has one.
OldestOfHighestClass ==
    IF Len(iq.highPriority) > 0 THEN Head(iq.highPriority)
    ELSE IF Len(iq.normalPriority) > 0 THEN Head(iq.normalPriority)
    ELSE Head(iq.lowPriority)

\* C8: when DequeueJob returns while some job is waiting, it returns the
\* oldest job of the highest priority class that has a waiting job.
C8_OldestOfHighestClass ==
    [][(iq.dqPc # "idle" /\ iq'.dqPc = "idle" /\ SomeJobWaiting)
         => (iq'.dqOk /\ iq'.dqJob = OldestOfHighestClass)]_vars

\* C33: DequeueJob returns ok = true only together with a job: never a nil
\* job with ok = true, also after Close.
C33_OkOnlyWithJob == iq.dqOk => iq.dqJob # NilJob

\* The number of jobs waiting in the three channels.
TotalWaiting == Len(iq.highPriority) + Len(iq.normalPriority) + Len(iq.lowPriority)

\* C40: EnqueueJob reports queue-full (and drops the job) only when the
\* total number of waiting jobs has reached the maximum queue size.
C40_FullOnlyAtMaximum ==
    [][iq'.stats.DroppedJobs > iq.stats.DroppedJobs
         => TotalWaiting >= MaxQueueSize]_vars

(***************************************************************************)
(* The command-line process: main (cmd/scraper/main.go)                    *)
(*                                                                         *)
(* cli is the process: url and urlsFile say whether the flags -url and     *)
(* -urls-file are given, fileOK that the URL file can be read, fileURLs    *)
(* the number of URLs in it, proxyFileOK that the proxy file (if any) can  *)
(* be read, numRequests the flag -num-requests, outputOK that -output is   *)
(* json or text; pc is the position of main, urls the length of the URL    *)
(* list, urlIndex and reqIndex the loop counters, failures the number of   *)
(* executeRequest calls that returned an error, exitCode the exit status   *)
(* (NoExit while the process runs).                                        *)
(***************************************************************************)
\* Largest number of URLs in the URL file.
MaxURLs == 2
\* Largest -num-requests tried.
MaxNumRequests == 2

NoExit == -1

\* The process after flag.Parse(), without -version.
MainStart(u, uf, fok, n, pfok, nr, ook) ==
    [url |-> u, urlsFile |-> uf, fileOK |-> fok, fileURLs |-> n,
     proxyFileOK |-> pfok, numRequests |-> nr, outputOK |-> ook,
     pc |-> "validate", urls |-> 0, urlIndex |-> 0, reqIndex |-> 0,
     failures |-> 0, exitCode |-> NoExit]

\* os.Exit(code), also through log.Fatal (code 1).
Exit(c, code) == [c EXCEPT !.pc = "exited", !.exitCode = code]

\* "Either -url or -urls-file is required" / "Cannot specify both -url and
\* -urls-file": usage and os.Exit(1).
MainUsageError ==
    /\ cli.pc = "validate"
    /\ cli.url = cli.urlsFile
    /\ cli' = Exit(cli, 1)
    /\ UNCHANGED <<pr, phc, a, iq, sc>>
    /\ UNCHANGED engineVars

\* The URL list and the proxy list are prepared: a URL file or a proxy file
\* that cannot be read, or an empty URL list, ends in log.Fatal.
MainPrepare ==
    /\ cli.pc = "validate"
    /\ cli.url # cli.urlsFile
    /\ cli' = IF ~cli.url /\ ~cli.fileOK THEN Exit(cli, 1)
              ELSE IF ~cli.url /\ cli.fileURLs = 0 THEN Exit(cli, 1)
              ELSE IF ~cli.proxyFileOK THEN Exit(cli, 1)
              ELSE [cli EXCEPT !.urls = IF cli.url THEN 1 ELSE cli.fileURLs,
                               !.pc = "loop"]
    /\ UNCHANGED <<pr, phc, a, iq, sc>>
    /\ UNCHANGED engineVars

\* The loop counters after one more executeRequest.
NextRequest(c) ==
    IF c.reqIndex + 1 < c.numRequests
    THEN [c EXCEPT !.reqIndex = @ + 1]
    ELSE [c EXCEPT !.reqIndex = 0, !.urlIndex = @ + 1]

\* executeRequest returns nil: the response has been written, or
\* outputResponse has ended in log.Fatal on an unsupported output format.
ExecuteRequestSucceeds ==
    /\ cli.pc = "loop"
    /\ cli.urlIndex < cli.urls
    /\ cli' = IF cli.outputOK THEN NextRequest(cli) ELSE Exit(cli, 1)
    /\ UNCHANGED <<pr, phc, a, iq, sc>>
    /\ UNCHANGED engineVars

\* executeRequest returns an error (the request failed after its retries, or
\* the scraper could not be set up): "Request failed for ..." is logged and
\* the loop continues.
ExecuteRequestFails ==
    /\ cli.pc = "loop"
    /\ cli.urlIndex < cli.urls
    /\ cli' = [NextRequest(cli) EXCEPT !.failures = @ + 1]
    /\ UNCHANGED <<pr, phc, a, iq, sc>>
    /\ UNCHANGED engineVars

\* The loops are over and main returns: exit status 0.
MainReturns ==
    /\ cli.pc = "loop"
    /\ cli.urlIndex >= cli.urls
    /\ cli' = Exit(cli, 0)
    /\ UNCHANGED <<pr, phc, a, iq, sc>>
    /\ UNCHANGED engineVars

\* Every combination of the flags; with -url the URL file is not looked at.
MainInit ==
    /\ \E u \in BOOLEAN, uf \in BOOLEAN, fok \in BOOLEAN, n \in 0..MaxURLs,
          pfok \in BOOLEAN, nr \in 1..MaxNumRequests, ook \in BOOLEAN :
          /\ ~uf => (fok /\ n = 0)
          /\ cli = MainStart(u, uf, fok, n, pfok, nr, ook)
    /\ PoolOff
    /\ ProxyOff
    /\ RetryOff
    /\ QueueOff
    /\ BucketOff
    /\ MemoryOff
    /\ ScraperOff

MainNext ==
    \/ MainUsageError
    \/ MainPrepare
    \/ ExecuteRequestSucceeds
    \/ ExecuteRequestFails
    \/ MainReturns

SpecMain == MainInit /\ [][MainNext]_vars

(***************************************************************************)
(* Claims about the exit status (checked under SpecMain)                   *)
(***************************************************************************)
\* C21: the process exits with 0 only if no request failed, with 1 on a
\* configuration error (both or neither of -url and -urls-file among them),
\* and with 2 if a request failed after its retries.
C21_ExitCodes ==
    cli.pc = "exited"
        => /\ cli.exitCode = 0 => cli.failures = 0
           /\ cli.url = cli.urlsFile => cli.exitCode = 1
           /\ (cli.failures > 0 /\ cli.outputOK) => cli.exitCode = 2

(***************************************************************************)
(* Creating a scraper with a proxy: NewAdvancedScraperWithProtocol,        *)
(* createTLSClientWithProtocol, WithProxy, configureProxy, and the first   *)
(* request made with it                                                    *)
(*                                                                         *)
(* In SpecCreate sc is the scraper executeRequest builds: fingerprint,     *)
(* protocol and proxyURL are the arguments (proxyURL by its kind: "" for   *)
(* none, a scheme, or "unparsable" when url.Parse rejects it); transport   *)
(* is the type of client.Transport, transportProxy the proxy the transport *)
(* is set to ("" for a direct connection), configErr the value             *)
(* configureProxy returned, createErr the error the constructor returned;  *)
(* pc is new, built, panicked or requested, requestVia the route of the    *)
(* request made ("none" before it), result its outcome.                    *)
(***************************************************************************)
Fingerprints == {"chrome", "firefox", "safari", "edge"}

ProtocolVersions == {"HTTP1_1", "HTTP2", "HTTPAuto"}

\* The schemes configureProxy accepts.
SupportedSchemes == {"http", "https", "socks5"}

\* Proxy URLs by kind: none, the supported schemes, another scheme, and a
\* string url.Parse rejects.
ProxyURLs == {""} \cup SupportedSchemes \cup {"ftp", "unparsable"}

\* createTLSClientWithProtocol: the type of the transport it builds.
TransportOf(protocol) ==
    IF protocol = "HTTP1_1" THEN "http.Transport" ELSE "http2.Transport"

\* configureProxy on a scraper with the given transport: the error returned,
\* the proxy the transport ends up with, and whether the type assertion
\* a.client.Transport.(*http.Transport) panicked.
configureProxy(proxyURL, transport) ==
    IF proxyURL = ""
    THEN [err |-> "nil", transportProxy |-> "", panic |-> FALSE]
    ELSE IF proxyURL = "unparsable"
    THEN [err |-> "invalid proxy URL", transportProxy |-> "", panic |-> FALSE]
    ELSE IF transport # "http.Transport"
    THEN [err |-> "nil", transportProxy |-> "", panic |-> TRUE]
    ELSE IF proxyURL \in SupportedSchemes
    THEN [err |-> "nil", transportProxy |-> proxyURL, panic |-> FALSE]
    ELSE [err |-> "unsupported proxy scheme", transportProxy |-> "", panic |-> FALSE]

\* The arguments executeRequest passes to NewAdvancedScraperWithProtocol.
NewScraperCall(f, pv, p) ==
    [fingerprint |-> f, protocol |-> pv, proxyURL |-> p, pc |-> "new",
     transport |-> "none", transportProxy |-> "", configErr |-> "nil",
     createErr |-> "nil", requestVia |-> "none", result |-> "none"]

\* NewAdvancedScraperWithProtocol with the option WithProxy(proxyURL): the
\* client is built, the option stores proxyURL and calls configureProxy,
\* whose error it drops; the constructor returns the scraper and nil.
NewAdvancedScraperWithProtocol ==
    /\ sc.pc = "new"
    /\ sc' = [sc EXCEPT
                !.transport = TransportOf(sc.protocol),
                !.transportProxy =
                    configureProxy(sc.proxyURL, TransportOf(sc.protocol)).transportProxy,
                !.configErr =
                    configureProxy(sc.proxyURL, TransportOf(sc.protocol)).err,
                !.pc = IF configureProxy(sc.proxyURL, TransportOf(sc.protocol)).panic
                       THEN "panicked" ELSE "built"]
    /\ UNCHANGED <<pr, phc, a, iq, cli>>
    /\ UNCHANGED engineVars

\* The request of GetWithRetry or PostWithRetry on the scraper (no rotator):
\* it goes where the transport is set to go.
FirstRequest(res) ==
    /\ sc.pc = "built"
    /\ sc' = [sc EXCEPT !.requestVia = IF sc.transportProxy = "" THEN "direct"
                                       ELSE sc.transportProxy,
                        !.result = res,
                        !.pc = "requested"]
    /\ UNCHANGED <<pr, phc, a, iq, cli>>
    /\ UNCHANGED engineVars

CreateInit ==
    /\ \E f \in Fingerprints, pv \in ProtocolVersions, p \in ProxyURLs :
          sc = NewScraperCall(f, pv, p)
    /\ PoolOff
    /\ ProxyOff
    /\ RetryOff
    /\ QueueOff
    /\ BucketOff
    /\ MemoryOff
    /\ CliOff

CreateNext ==
    \/ NewAdvancedScraperWithProtocol
    \/ \E res \in {"response", "error"} : FirstRequest(res)

SpecCreate == CreateInit /\ [][CreateNext]_vars

(***************************************************************************)
(* Claims about scraper creation (checked under SpecCreate)                *)
(***************************************************************************)
\* C22: with a proxy URL that cannot be used (unparsable, or of a scheme
\* other than http, https, socks5) the constructor reports an error and no
\* request is sent directly.
C22_UnusableProxyFailsJob ==
    (sc.proxyURL # "" /\ sc.proxyURL \notin SupportedSchemes)
        => /\ sc.pc = "built" => sc.createErr # "nil"
           /\ sc.requestVia # "direct"

\* C29: creating a scraper with a proxy of a supported scheme, or with an
\* empty proxy URL, completes without panic and without error under every
\* protocol selector.
C29_CreationNeverCrashes ==
    (sc.pc # "new" /\ sc.proxyURL \in SupportedSchemes \cup {""})
        => /\ sc.pc # "panicked"
           /\ sc.createErr = "nil"

(***************************************************************************)
(* Browser profile lookup: parseBrowserFingerprint, selectTLSProfile and   *)
(* the header profile of executeRequest (cmd/scraper/main.go)              *)
(*                                                                         *)
(* In SpecProfile cli is one executeRequest call up to the header          *)
(* configuration: tlsProfile, tlsRandomize, headerMimicry and              *)
(* headerProfile are the flags; pc is start, tls (selectTLSProfile has     *)
(* returned) or done; fingerprint is the value selectTLSProfile returned,  *)
(* headerProfileType the profile of the header configuration ("none"       *)
(* while unset), err the error executeRequest returns ("nil": none).       *)
(***************************************************************************)
\* Profile names tried: the registered ones, one in another case, and names
\* that are not registered.
ProfileNames == Fingerprints \cup {"Chrome", "opera", ""}

\* strings.ToLower on the names tried.
ToLower(name) == IF name = "Chrome" THEN "chrome" ELSE name

\* parseBrowserFingerprint: the fingerprint and the error; Chrome comes with
\* the error for a name that is not registered.
parseBrowserFingerprint(browser) ==
    IF ToLower(browser) \in Fingerprints
    THEN [fingerprint |-> ToLower(browser), err |-> "nil"]
    ELSE [fingerprint |-> "chrome", err |-> "unsupported browser"]

\* executeRequest is called.
ExecuteRequestCall(tp, tr, hm, hp) ==
    [tlsProfile |-> tp, tlsRandomize |-> tr, headerMimicry |-> hm,
     headerProfile |-> hp, pc |-> "start", fingerprint |-> "none",
     headerProfileType |-> "none", err |-> "nil"]

\* selectTLSProfile: parseBrowserFingerprint of -tls-profile, or of a random
\* registered name, with the error dropped.
SelectTLSProfile(randomProfile) ==
    /\ cli.pc = "start"
    /\ cli' = [cli EXCEPT
                 !.fingerprint =
                     IF cli.tlsRandomize
                     THEN parseBrowserFingerprint(randomProfile).fingerprint
                     ELSE parseBrowserFingerprint(cli.tlsProfile).fingerprint,
                 !.pc = "tls"]
    /\ UNCHANGED <<pr, phc, a, iq, sc>>
    /\ UNCHANGED engineVars

\* The header profile: "auto" takes the TLS profile; another name goes
\* through parseBrowserFingerprint, whose error ends executeRequest with
\* "invalid header profile".
ResolveHeaderProfile ==
    /\ cli.pc = "tls"
    /\ cli' = IF ~cli.headerMimicry
              THEN [cli EXCEPT !.pc = "done"]
              ELSE IF cli.headerProfile = "auto"
              THEN [cli EXCEPT !.headerProfileType = cli.fingerprint, !.pc = "done"]
              ELSE IF parseBrowserFingerprint(cli.headerProfile).err # "nil"
              THEN [cli EXCEPT !.err = "invalid header profile", !.pc = "done"]
              ELSE [cli EXCEPT
                      !.headerProfileType =
                          parseBrowserFingerprint(cli.headerProfile).fingerprint,
                      !.pc = "done"]
    /\ UNCHANGED <<pr, phc, a, iq, sc>>
    /\ UNCHANGED engineVars

ProfileInit ==
    /\ \E tp \in ProfileNames, tr \in BOOLEAN, hm \in BOOLEAN,
          hp \in ProfileNames \cup {"auto"} :
          cli = ExecuteRequestCall(tp, tr, hm, hp)
    /\ PoolOff
    /\ ProxyOff
    /\ RetryOff
    /\ QueueOff
    /\ BucketOff
    /\ MemoryOff
    /\ ScraperOff

ProfileNext ==
    \/ \E randomProfile \in Fingerprints : SelectTLSProfile(randomProfile)
    \/ ResolveHeaderProfile

SpecProfile == ProfileInit /\ [][ProfileNext]_vars

(***************************************************************************)
(* Claims about profile lookup (checked under SpecProfile)                 *)
(***************************************************************************)
\* C23: once the profiles are looked up, a registered name has yielded its
\* own profile, and a name that is not registered has yielded an error and
\* no profile, for the TLS profile as for the header profile.
C23_UnknownProfileFails ==
    cli.pc = "done"
        => /\ ~cli.tlsRandomize
                => IF ToLower(cli.tlsProfile) \in Fingerprints
                   THEN cli.fingerprint = ToLower(cli.tlsProfile)
                   ELSE cli.err # "nil"
           /\ (cli.headerMimicry /\ cli.headerProfile # "auto")
                => IF ToLower(cli.headerProfile) \in Fingerprints
                   THEN cli.headerProfileType = ToLower(cli.headerProfile)
                   ELSE cli.err # "nil" /\ cli.headerProfileType = "none"

(***************************************************************************)
(* Request headers: SetHeader, SetUserAgent, and the headers Scraper.Get   *)
(* and PostWithRetry put on the request                                    *)
(*                                                                         *)
(* In SpecHeaders sc is the scraper and one request: headers is the map    *)
(* s.headers ("absent" for a key not in it), userAgent the field           *)
(* s.userAgent; overridden is the set of keys SetHeader has been called    *)
(* with and calls the number of those calls; method is GET or POST, pc is  *)
(* ready or sent, req the header of the request sent, by canonical name.   *)
(***************************************************************************)
\* Number of SetHeader and SetUserAgent calls before the request.
MaxSetHeader == 2

\* Keys the caller passes to SetHeader.
HeaderKeys == {"Accept", "accept", "Accept-Language", "User-Agent", "X-Custom"}

\* Values the caller passes.
HeaderValues == {"v1", "v2"}

\* textproto.CanonicalMIMEHeaderKey, applied by http.Header.Set.
Canonical(key) == IF key = "accept" THEN "Accept" ELSE key

\* The header names a request can carry.
CanonicalNames == {Canonical(k) : k \in HeaderKeys} \cup {"Content-Type"}

\* getDefaultHeaders(fingerprint), two of its entries.
DefaultHeaders == {"Accept", "Accept-Language"}

\* NewScraperWithJS: headers and userAgent of the fingerprint.
NewScraperHeaders(m) ==
    [headers |-> [k \in HeaderKeys |-> IF k \in DefaultHeaders THEN "default"
                                       ELSE "absent"],
     userAgent |-> "default",
     overridden |-> {},
     calls |-> 0,
     method |-> m,
     pc |-> "ready",
     req |-> [n \in CanonicalNames |-> "absent"]]

\* SetHeader(key, value): a.headers[key] = value.
SetHeader(key, value) ==
    /\ sc.pc = "ready"
    /\ sc.calls < MaxSetHeader
    /\ sc' = [sc EXCEPT !.headers[key] = value,
                        !.overridden = @ \cup {key},
                        !.calls = @ + 1]
    /\ UNCHANGED <<pr, phc, a, iq, cli>>
    /\ UNCHANGED engineVars

\* SetUserAgent(userAgent).
SetUserAgent(value) ==
    /\ sc.pc = "ready"
    /\ sc.calls < MaxSetHeader
    /\ sc' = [sc EXCEPT !.userAgent = value, !.calls = @ + 1]
    /\ UNCHANGED <<pr, phc, a, iq, cli>>
    /\ UNCHANGED engineVars

\* The values "for key, value := range headers { req.Header.Set(key, value) }"
\* can leave under canonical name n: the value of any key of that name, the
\* map being ranged over in an unspecified order.
RangeSet(headers, n) ==
    {headers[k] : k \in {j \in HeaderKeys : Canonical(j) = n /\ headers[j] # "absent"}}

\* The request header once the fixed headers are set over the loop's:
\* User-Agent from s.userAgent, and Content-Type on a POST.
FixedOver(r, s) ==
    [r EXCEPT !["User-Agent"] = s.userAgent,
              !["Content-Type"] = IF s.method = "POST"
                                  THEN "application/x-www-form-urlencoded"
                                  ELSE r["Content-Type"]]

\* Scraper.Get or PostWithRetry builds the request and sends it.
SendRequest ==
    /\ sc.pc = "ready"
    /\ \E r \in [CanonicalNames -> HeaderValues \cup {"default", "absent"}] :
          /\ \A n \in CanonicalNames :
                IF RangeSet(sc.headers, n) = {} THEN r[n] = "absent"
                ELSE r[n] \in RangeSet(sc.headers, n)
          /\ sc' = [sc EXCEPT !.req = FixedOver(r, sc), !.pc = "sent"]
    /\ UNCHANGED <<pr, phc, a, iq, cli>>
    /\ UNCHANGED engineVars

HeadersInit ==
    /\ \E m \in {"GET", "POST"} : sc = NewScraperHeaders(m)
    /\ PoolOff
    /\ ProxyOff
    /\ RetryOff
    /\ QueueOff
    /\ BucketOff
    /\ MemoryOff
    /\ CliOff

HeadersNext ==
    \/ \E key \in HeaderKeys, value \in HeaderValues : SetHeader(key, value)
    \/ \E value \in HeaderValues : SetUserAgent(value)
    \/ SendRequest

SpecHeaders == HeadersInit /\ [][HeadersNext]_vars

(***************************************************************************)
(* Claims about request headers (checked under SpecHeaders)                *)
(***************************************************************************)
\* C24: the request sent carries, for every key SetHeader was called with,
\* the value given for it, and every default header that was not overridden
\* with its default value.
C24_OverrideReplacesDefault ==
    sc.pc = "sent"
        => /\ \A k \in sc.overridden :
                (\A j \in sc.overridden : Canonical(j) = Canonical(k) => j = k)
                    => sc.req[Canonical(k)] = sc.headers[k]
           /\ \A n \in DefaultHeaders :
                (\A k \in sc.overridden : Canonical(k) # n) => sc.req[n] = "default"

(***************************************************************************)
(* Cookies: the CookieJar of the AdvancedScraper, saveCookies, addCookies, *)
(* as GetWithRetry and PostWithRetry use them                              *)
(*                                                                         *)
(* In SpecCookies sc is the scraper and the requests made with it: jar     *)
(* says whether a.cookieJar is set (WithCookieHandling with EnableJar      *)
(* false makes it nil), cookies is the map a.cookieJar.cookies from host   *)
(* to the list of stored cookies; latest is, for each host and cookie      *)
(* name, the value of the last Set-Cookie a response from the host         *)
(* carried ("none" before any); requests counts the requests, method,      *)
(* host and sent describe the last one (sent: the cookies it carried), pc  *)
(* is ready or panicked.                                                   *)
(***************************************************************************)
\* Number of requests made with the scraper.
MaxCookieRequests == 3

Hosts == {"a.test", "b.test"}

CookieNames == {"s", "t"}

CookieValues == {"1", "2"}

\* A cookie as a Set-Cookie line names it; the path is "/".
Cookie(name, value) == [Name |-> name, Value |-> value, Path |-> "/"]

\* The Set-Cookie lines of a response: none, or one cookie.
SetCookieLines == {<<>>} \cup {<<Cookie(n, v)>> : n \in CookieNames, v \in CookieValues}

\* An http.Header with its Cookie and Set-Cookie lines.
Header(cookieLines, setCookieLines) ==
    [Cookie |-> cookieLines, SetCookie |-> setCookieLines]

\* (&http.Request{Header: header}).Cookies(): the cookies of the Cookie
\* lines of the header; Set-Cookie lines are not read.
RequestCookies(header) == header.Cookie

\* The cookies saveCookies appends for one Set-Cookie line: it puts the line
\* in a fresh header with header.Add("Set-Cookie", cookieStr) and asks a
\* request with that header for its Cookies().
ParsedFromLine(line) == RequestCookies(Header(<<>>, <<line>>))

RECURSIVE ParsedFrom(_)
\* The cookies saveCookies appends for the Set-Cookie lines of a response.
ParsedFrom(lines) ==
    IF lines = <<>> THEN <<>>
    ELSE ParsedFromLine(Head(lines)) \o ParsedFrom(Tail(lines))

\* saveCookies: append what was parsed to the list of the host.
saveCookies(cookies, host, lines) ==
    [cookies EXCEPT ![host] = @ \o ParsedFrom(lines)]

\* NewAdvancedScraperWithJS with WithCookieHandling(EnableJar: jar).
NewScraperCookies(jar) ==
    [jar |-> jar,
     cookies |-> [h \in Hosts |-> <<>>],
     latest |-> [h \in Hosts |-> [n \in CookieNames |-> "none"]],
     requests |-> 0,
     method |-> "none",
     host |-> "none",
     sent |-> <<>>,
     pc |-> "ready"]

\* The latest values after a response from host with the given lines.
Received(latest, host, lines) ==
    IF lines = <<>> THEN latest
    ELSE [latest EXCEPT ![host][lines[1].Name] = lines[1].Value]

\* GetWithRetry to host, answered with a status below 500: Scraper.Get sends
\* the headers and the User-Agent and no cookie; the response's Set-Cookie
\* lines go to saveCookies.
GetRequest(host, lines) ==
    /\ sc.pc = "ready"
    /\ sc.requests < MaxCookieRequests
    /\ sc' = [sc EXCEPT !.method = "GET",
                        !.host = host,
                        !.sent = <<>>,
                        !.requests = @ + 1,
                        !.latest = Received(@, host, lines),
                        !.cookies = IF sc.jar THEN saveCookies(@, host, lines) ELSE @]
    /\ UNCHANGED <<pr, phc, a, iq, cli>>
    /\ UNCHANGED engineVars

\* PostWithRetry to host, answered with a status below 500: addCookies puts
\* the stored cookies of the host on the request, reading a.cookieJar.cookies,
\* a nil pointer dereference when the jar is nil; the response's Set-Cookie
\* lines go to saveCookies.
PostRequest(host, lines) ==
    /\ sc.pc = "ready"
    /\ sc.requests < MaxCookieRequests
    /\ sc' = IF ~sc.jar
             THEN [sc EXCEPT !.method = "POST", !.host = host,
                             !.requests = @ + 1, !.pc = "panicked"]
             ELSE [sc EXCEPT !.method = "POST",
                             !.host = host,
                             !.sent = sc.cookies[host],
                             !.requests = @ + 1,
                             !.latest = Received(@, host, lines),
                             !.cookies = saveCookies(@, host, lines)]
    /\ UNCHANGED <<pr, phc, a, iq, cli>>
    /\ UNCHANGED engineVars

CookiesInit ==
    /\ \E jar \in BOOLEAN : sc = NewScraperCookies(jar)
    /\ PoolOff
    /\ ProxyOff
    /\ RetryOff
    /\ QueueOff
    /\ BucketOff
    /\ MemoryOff
    /\ CliOff

CookiesNext ==
    \/ \E host \in Hosts, lines \in SetCookieLines : GetRequest(host, lines)
    \/ \E host \in Hosts, lines \in SetCookieLines : PostRequest(host, lines)

SpecCookies == CookiesInit /\ [][CookiesNext]_vars

(***************************************************************************)
(* Claims about cookies (checked under SpecCookies)                        *)
(***************************************************************************)
\* The stored cookies of host h named n.
Stored(h, n) == SelectSeq(sc.cookies[h], LAMBDA c : c.Name = n)

\* C25: with the jar enabled, the jar holds for every host and cookie name
\* at most one cookie, and once a response from the host has set the cookie
\* it holds exactly one, with the value received last.
C25_JarHoldsLatest ==
    (sc.jar /\ sc.pc = "ready")
        => \A h \in Hosts, n \in CookieNames :
              /\ Len(Stored(h, n)) <= 1
              /\ sc.latest[h][n] # "none"
                    => /\ Len(Stored(h, n)) = 1
                       /\ Stored(h, n)[1].Value = sc.latest[h][n]


\* C26: a request to a host, GET or POST, carries every cookie that an
\* earlier response from that host has set, with the value set last.
C26_CookiesSentBack ==
    [][\A n \in CookieNames :
          (sc'.requests = sc.requests + 1 /\ sc.latest[sc'.host][n] # "none")
              => \E i \in 1..Len(sc'.sent) :
                    sc'.sent[i] = Cookie(n, sc.latest[sc'.host][n])]_vars

\* C39: with the cookie jar switched off GetWithRetry and PostWithRetry
\* complete normally: no request panics on the absent jar.
C39_NoJarNoPanic == ~sc.jar => sc.pc # "panicked"


(***************************************************************************)
(* Redirects: WithRedirectHandling and the http.Client of the scraper      *)
(*                                                                         *)
(* In SpecRedirect sc is one request of a scraper built with the redirect  *)
(* options of the command line: followRedirects and maxRedirects are the   *)
(* RedirectConfig given to WithRedirectHandling, checkRedirect is the      *)
(* CheckRedirect policy of the http.Client ("default" when the field is    *)
(* not set), hops is the number of 3xx responses the servers give before   *)
(* a final one, followed counts the redirects client.Do has followed, pc   *)
(* is sent, returned or failed, status is the status of the response       *)
(* returned to the caller.                                                 *)
(***************************************************************************)
\* Largest -max-redirects value.
MaxRedirectsFlag == 2

\* Longest chain of 3xx responses.
MaxHops == 11

\* The redirects an http.Client without a CheckRedirect policy follows.
DefaultRedirects == 10

\* createTLSClientWithProtocol: &http.Client{Transport, Timeout}.
NewClient == [checkRedirect |-> "default"]

\* WithRedirectHandling(redirectConfig): the option leaves the client as it is.
WithRedirectHandling(client, redirectConfig) == client

\* executeRequest: the scraper for -follow-redirects fr -max-redirects mr,
\* and a request whose answer is a chain of hops redirects.
NewScraperRedirect(fr, mr, method, hops) ==
    [followRedirects |-> fr,
     maxRedirects |-> mr,
     checkRedirect |->
         WithRedirectHandling(NewClient,
             [FollowRedirects |-> fr, MaxRedirects |-> mr]).checkRedirect,
     method |-> method,
     hops |-> hops,
     followed |-> 0,
     status |-> "none",
     pc |-> "sent"]

\* client.Do receives a 3xx response and the policy lets it go on: it sends
\* the next request itself.
FollowRedirect ==
    /\ sc.pc = "sent"
    /\ sc.followed < sc.hops
    /\ sc.checkRedirect = "default"
    /\ sc.followed < DefaultRedirects
    /\ sc' = [sc EXCEPT !.followed = @ + 1]
    /\ UNCHANGED <<pr, phc, a, iq, cli>>
    /\ UNCHANGED engineVars

\* client.Do receives a 3xx response after DefaultRedirects redirects: the
\* default policy stops it and Do returns an error.
StopAfterRedirects ==
    /\ sc.pc = "sent"
    /\ sc.followed < sc.hops
    /\ sc.checkRedirect = "default"
    /\ sc.followed >= DefaultRedirects
    /\ sc' = [sc EXCEPT !.pc = "failed"]
    /\ UNCHANGED <<pr, phc, a, iq, cli>>
    /\ UNCHANGED engineVars

\* client.Do receives the final response and returns it.
ReturnResponse ==
    /\ sc.pc = "sent"
    /\ sc.followed = sc.hops
    /\ sc' = [sc EXCEPT !.pc = "returned", !.status = "200"]
    /\ UNCHANGED <<pr, phc, a, iq, cli>>
    /\ UNCHANGED engineVars

RedirectInit ==
    /\ \E fr \in BOOLEAN, mr \in 0..MaxRedirectsFlag,
          method \in {"GET", "POST"}, hops \in 0..MaxHops :
          sc = NewScraperRedirect(fr, mr, method, hops)
    /\ PoolOff
    /\ ProxyOff
    /\ RetryOff
    /\ QueueOff
    /\ BucketOff
    /\ MemoryOff
    /\ CliOff

RedirectNext ==
    \/ FollowRedirect
    \/ StopAfterRedirects
    \/ ReturnResponse

SpecRedirect == RedirectInit /\ [][RedirectNext]_vars

(***************************************************************************)
(* Claims about redirects (checked under SpecRedirect)                     *)
(***************************************************************************)
\* C27: with -max-redirects 0 or -follow-redirects=false no redirect is
\* followed, and the caller of a request answered with a redirect gets the
\* 3xx response.
C27_NoRedirectFollowed ==
    (sc.maxRedirects = 0 \/ ~sc.followRedirects)
        => /\ sc.followed = 0
           /\ (sc.hops > 0 /\ sc.pc # "sent")
                 => (sc.pc = "returned" /\ sc.status = "3xx")


(***************************************************************************)
(* The locks of GetNext and of the health probes                           *)
(*                                                                         *)
(* SpecProbeLock follows pr.mutex and phc.mutex one lock operation at a    *)
(* time.  phc.writer is the proxy whose CheckProxyHealth goroutine holds   *)
(* phc.mutex for writing (NoProxy: none), phc.waiting the proxies whose    *)
(* goroutine is blocked in phc.mutex.Lock(), phc.readers the goroutines    *)
(* holding it for reading; phc.runner is the position of runHealthChecks   *)
(* (idle, listing: under the read lock), phc.probe the position of the     *)
(* CheckProxyHealth goroutine of each proxy (idle, spawned, request: in    *)
(* client.Do, wantLock: blocked in Lock(), record: in recordSuccess or     *)
(* recordFailure), phc.probes the number of recorded results.  pr.pc is    *)
(* the position of the GetNext call (idle; call: pr.mutex taken;           *)
(* snapshot: in GetHealthyProxies under the read lock; scan: between the   *)
(* two; read: in GetProxyHealth under the read lock), pr.calls the number  *)
(* of calls that returned, pr.overlapped whether the call in progress      *)
(* began with a probe request outstanding.                                 *)
(***************************************************************************)
\* Number of GetNext calls in one behaviour.
MaxGetNext == 2

\* sync.RWMutex.RLock: granted when no writer holds the lock or waits for it.
CanRLock == phc.writer = NoProxy /\ phc.waiting = {}

\* sync.RWMutex.Lock: granted when nobody holds the lock.
CanLock == phc.writer = NoProxy /\ phc.readers = {}

\* The probes whose client.Do has not returned.
Outstanding == {p \in Proxies : phc.probe[p] = "request"}

\* NewProxyRotator(proxies, HealthAware) and its checker, nothing running.
NewProbeLocks ==
    /\ pr = [pc |-> "idle", calls |-> 0, overlapped |-> FALSE]
    /\ phc = [writer |-> NoProxy, waiting |-> {}, readers |-> {},
              runner |-> "idle",
              probe |-> [p \in Proxies |-> "idle"],
              probes |-> 0]

\* runHealthChecks: phc.mutex.RLock() and the copy of the proxy list.
RunListLock ==
    /\ phc.runner = "idle"
    /\ phc.probes < MaxProbes
    /\ \E p \in Proxies : phc.probe[p] = "idle"
    /\ CanRLock
    /\ phc' = [phc EXCEPT !.runner = "listing", !.readers = @ \cup {"runner"}]
    /\ UNCHANGED <<pr, a, iq>>
    /\ UNCHANGED <<engineVars, clientVars>>

\* runHealthChecks: phc.mutex.RUnlock(), then a goroutine for every proxy
\* of the copy (one probe for each proxy is followed at a time).
RunListUnlock ==
    /\ phc.runner = "listing"
    /\ phc' = [phc EXCEPT !.runner = "idle",
                          !.readers = @ \ {"runner"},
                          !.probe = [p \in Proxies |->
                                        IF @[p] = "idle" THEN "spawned" ELSE @[p]]]
    /\ UNCHANGED <<pr, a, iq>>
    /\ UNCHANGED <<engineVars, clientVars>>

\* CheckProxyHealth like ProbeSend, but taking phc.mutex before the request.
ProbeSend_Locked(p) ==
    /\ phc.probe[p] = "spawned"
    /\ CanLock
    /\ phc' = [phc EXCEPT !.probe[p] = "request", !.writer = p]
    /\ UNCHANGED <<pr, a, iq>>
    /\ UNCHANGED <<engineVars, clientVars>>

\* CheckProxyHealth up to client.Do(req): the URL is parsed, the client and
\* the request are built and the request is sent; no lock is taken.
ProbeSend(p) ==
    /\ phc.probe[p] = "spawned"
    /\ phc' = [phc EXCEPT !.probe[p] = "request"]
    /\ UNCHANGED <<pr, a, iq>>
    /\ UNCHANGED <<engineVars, clientVars>>

\* client.Do returns (a response or an error); CheckProxyHealth calls
\* recordSuccess or recordFailure, which starts with phc.mutex.Lock().
ProbeResponse(p) ==
    /\ phc.probe[p] = "request"
    /\ phc' = [phc EXCEPT !.probe[p] = "wantLock", !.waiting = @ \cup {p}]
    /\ UNCHANGED <<pr, a, iq>>
    /\ UNCHANGED <<engineVars, clientVars>>

\* phc.mutex.Lock() of recordSuccess or recordFailure is granted.
ProbeLock(p) ==
    /\ phc.probe[p] = "wantLock"
    /\ CanLock
    /\ phc' = [phc EXCEPT !.probe[p] = "record",
                          !.waiting = @ \ {p},
                          !.writer = p]
    /\ UNCHANGED <<pr, a, iq>>
    /\ UNCHANGED <<engineVars, clientVars>>

\* recordSuccess or recordFailure returns: the deferred phc.mutex.Unlock().
ProbeUnlock(p) ==
    /\ phc.probe[p] = "record"
    /\ phc' = [phc EXCEPT !.probe[p] = "idle",
                          !.writer = NoProxy,
                          !.probes = @ + 1]
    /\ UNCHANGED <<pr, a, iq>>
    /\ UNCHANGED <<engineVars, clientVars>>

\* GetNext: pr.mutex.Lock().
GetNextLock ==
    /\ pr.pc = "idle"
    /\ pr.calls < MaxGetNext
    /\ pr' = [pr EXCEPT !.pc = "call", !.overlapped = Outstanding # {}]
    /\ UNCHANGED <<phc, a, iq>>
    /\ UNCHANGED <<engineVars, clientVars>>

\* getHealthyProxy: GetHealthyProxies takes phc.mutex.RLock().
GetHealthyProxiesRLock ==
    /\ pr.pc = "call"
    /\ CanRLock
    /\ pr' = [pr EXCEPT !.pc = "snapshot"]
    /\ phc' = [phc EXCEPT !.readers = @ \cup {"getnext"}]
    /\ UNCHANGED <<a, iq>>
    /\ UNCHANGED <<engineVars, clientVars>>

\* GetHealthyProxies returns: the deferred RUnlock().
GetHealthyProxiesRUnlock ==
    /\ pr.pc = "snapshot"
    /\ pr' = [pr EXCEPT !.pc = "scan"]
    /\ phc' = [phc EXCEPT !.readers = @ \ {"getnext"}]
    /\ UNCHANGED <<a, iq>>
    /\ UNCHANGED <<engineVars, clientVars>>

\* getHealthyProxy, the scan: GetProxyHealth takes phc.mutex.RLock().
GetProxyHealthRLock ==
    /\ pr.pc = "scan"
    /\ CanRLock
    /\ pr' = [pr EXCEPT !.pc = "read"]
    /\ phc' = [phc EXCEPT !.readers = @ \cup {"getnext"}]
    /\ UNCHANGED <<a, iq>>
    /\ UNCHANGED <<engineVars, clientVars>>

\* GetProxyHealth returns (RUnlock), the scan ends and GetNext returns: the
\* deferred pr.mutex.Unlock().
GetNextUnlock ==
    /\ pr.pc = "read"
    /\ pr' = [pr EXCEPT !.pc = "idle", !.calls = @ + 1]
    /\ phc' = [phc EXCEPT !.readers = @ \ {"getnext"}]
    /\ UNCHANGED <<a, iq>>
    /\ UNCHANGED <<engineVars, clientVars>>

ProbeLockInit ==
    /\ NewProbeLocks
    /\ PoolOff
    /\ RetryOff
    /\ QueueOff
    /\ BucketOff
    /\ MemoryOff
    /\ CliOff
    /\ ScraperOff

ProbeLockNext ==
    \/ RunListLock
    \/ RunListUnlock
    \/ \E p \in Proxies : ProbeSend(p)
    \/ \E p \in Proxies : ProbeResponse(p)
    \/ \E p \in Proxies : ProbeLock(p)
    \/ \E p \in Proxies : ProbeUnlock(p)
    \/ GetNextLock
    \/ GetHealthyProxiesRLock
    \/ GetHealthyProxiesRUnlock
    \/ GetProxyHealthRLock
    \/ GetNextUnlock

SpecProbeLock == ProbeLockInit /\ [][ProbeLockNext]_vars

\* Every goroutine that can take a step takes it in the end, except that a
\* probe request may stay without an answer for ever.
ProbeLockFairness ==
    /\ WF_vars(RunListUnlock)
    /\ \A p \in Proxies : WF_vars(ProbeLock(p))
    /\ \A p \in Proxies : WF_vars(ProbeUnlock(p))
    /\ WF_vars(GetHealthyProxiesRLock)
    /\ WF_vars(GetHealthyProxiesRUnlock)
    /\ WF_vars(GetProxyHealthRLock)
    /\ WF_vars(GetNextUnlock)

SpecProbeLockLive == SpecProbeLock /\ ProbeLockFairness

(***************************************************************************)
(* Claims about the probe locks (checked under SpecProbeLockLive)          *)
(***************************************************************************)
\* A probe whose network request is outstanding neither holds phc.mutex nor
\* waits for it, so that a GetNext call that has to wait for phc.mutex
\* waits only for goroutines that are past their request or for the list
\* copy of runHealthChecks.
NoLockAcrossRequest ==
    /\ \A p \in Outstanding : phc.writer # p /\ p \notin phc.waiting
    /\ (pr.pc \in {"call", "scan"} /\ ~CanRLock)
          => \A p \in {phc.writer} \cup phc.waiting :
                p # NoProxy => phc.probe[p] \in {"wantLock", "record"}

\* C28: health probes never block proxy selection: every GetNext call
\* returns, also when the probe requests that are outstanding are never
\* answered.
C28_GetNextCompletes == (pr.pc = "call") ~> (pr.pc = "idle")

\* A GetNext call that began with a probe request outstanding is in
\* GetProxyHealth, its last lock operation, with the request still
\* outstanding.
C28_Witness ==
    /\ pr.pc = "read"
    /\ pr.overlapped
    /\ Outstanding # {}

(***************************************************************************)
(* WorkerPool.GetResult and what it returns                                *)
(*                                                                         *)
(* SpecResult is the pool of SpecPool with a caller of GetResult whose     *)
(* last return is kept: in it cli is that caller, result (none, result,    *)
(* nil) and err (none, nil, shutdown) the pair GetResult returned last.    *)
(***************************************************************************)
\* A program that has not called GetResult yet.
NewResultCaller == [pc |-> "caller", result |-> "none", err |-> "none"]

\* GetResult's select, case result := <-wp.resultQueue with a result in the
\* queue: return result, nil.
GetResultValue ==
    /\ ~crashed
    /\ Len(resultQueue) > 0
    /\ resultQueue' = Tail(resultQueue)
    /\ cli' = [cli EXCEPT !.result = "result", !.err = "nil"]
    /\ UNCHANGED <<config, running, ctxDone, jobQueue, jqClosed, rqClosed, quitClosed,
                   wg, wpc, wjob, statsPc, sub, delivered, totalJobs, completedJobs,
                   ctl, crashed>>
    /\ UNCHANGED <<pr, phc, a, iq, tb, mo, sc>>

\* GetResult's select, case result := <-wp.resultQueue on the closed, drained
\* queue: the receive yields the zero value, a nil *JobResult, and GetResult
\* returns it with a nil error.
GetResultClosed ==
    /\ ~crashed
    /\ Len(resultQueue) = 0
    /\ rqClosed
    /\ cli' = [cli EXCEPT !.result = "nil", !.err = "nil"]
    /\ UNCHANGED poolVars
    /\ UNCHANGED <<pr, phc, a, iq, tb, mo, sc>>

\* GetResult's select, case <-wp.ctx.Done(): nil and "worker pool is
\* shutting down".
GetResultShutdown ==
    /\ ~crashed
    /\ ctxDone
    /\ cli' = [cli EXCEPT !.result = "nil", !.err = "shutdown"]
    /\ UNCHANGED poolVars
    /\ UNCHANGED <<pr, phc, a, iq, tb, mo, sc>>

ResultInit ==
    /\ config \in [MaxConcurrent : 1..MaxWorkers, WorkerPoolSize : 1..MaxWorkers]
    /\ PoolFresh
    /\ cli = NewResultCaller
    /\ ProxyOff
    /\ RetryOff
    /\ QueueOff
    /\ BucketOff
    /\ MemoryOff
    /\ ScraperOff

ResultNext ==
    \/ Start
    \/ StopBegin
    \/ StopCancel
    \/ StopCloseJobs
    \/ StopCloseQuit
    \/ StopWait
    \/ \E j \in Jobs : SubmitCheck(j)
    \/ \E j \in Jobs : SubmitSend(j)
    \/ \E j \in Jobs : SubmitSendClosed(j)
    \/ \E j \in Jobs : SubmitShutdown(j)
    \/ \E j \in Jobs : SubmitFull(j)
    \/ \E w \in Workers : WorkerTake(w)
    \/ \E w \in Workers : WorkerQueueClosed(w)
    \/ \E w \in Workers : WorkerQuit(w)
    \/ \E w \in Workers : WorkerCtxDone(w)
    \/ \E w \in Workers : WorkerProcess(w)
    \/ \E w \in Workers : WorkerSendResult(w)
    \/ \E w \in Workers : WorkerSendClosed(w)
    \/ \E w \in Workers : WorkerSendCancelled(w)
    \/ StatsUpdaterReturn
    \/ GetResultValue
    \/ GetResultClosed
    \/ GetResultShutdown

SpecResult == ResultInit /\ [][ResultNext]_vars

(***************************************************************************)
(* Claims about GetResult (checked under SpecResult)                       *)
(***************************************************************************)
\* C32: GetResult never returns a nil result together with a nil error.
C32_NeverNilNil == ~(cli.result = "nil" /\ cli.err = "nil")

(***************************************************************************)
(* Start and Stop of the ProxyHealthChecker, and the checkers of a scraper *)
(*                                                                         *)
(* In SpecStartStop and SpecScraperStop phc.chk is the set of              *)
(* ProxyHealthChecker objects: for each, created says that                 *)
(* NewProxyHealthChecker has made it, running is its field, stopChan is    *)
(* open or closed, loops is the number of its healthCheckLoop goroutines   *)
(* that have not returned, closing the number of Stop calls between the    *)
(* unlock and close(phc.stopChan), starts the number of Start calls that   *)
(* launched a loop, rounds the number of runHealthChecks rounds its loops   *)
(* have run; phc.panicked says that a close has panicked.  pr is           *)
(* the ProxyRotator the scraper holds (made: it exists; healthChecker,     *)
(* enableHealth: its fields) and a the AdvancedScraper (todo: the          *)
(* ScraperOptions still to apply; healthChecker: its field; pc: options,   *)
(* rotator: inside WithHealthAwareProxyRotation, stopping, stopped).       *)
(***************************************************************************)
\* Number of proxy options given to the constructor of a scraper.
MaxOptions == 2

\* Number of ProxyHealthChecker objects: an option makes at most two.
NumCheckers == 2 * MaxOptions

\* Number of checkers used directly, without rotator or scraper.
NumDirect == 2

\* Number of Start calls on one checker that launch a loop.
MaxStarts == 2

\* Number of runHealthChecks rounds of one checker.
MaxRounds == 2

Checkers == 1..NumCheckers

NoChecker == 0

\* NewProxyHealthChecker: not running, stopChan made.
NewChecker ==
    [created |-> TRUE, running |-> FALSE, stopChan |-> "open", loops |-> 0,
     closing |-> 0, starts |-> 0, rounds |-> 0]

\* A checker that no call has made yet.
NotMade == [NewChecker EXCEPT !.created = FALSE]

\* No rotator and no scraper: the checkers are used directly.
NoRotator == [made |-> FALSE, healthChecker |-> NoChecker, enableHealth |-> FALSE]

\* Start on a checker that is not running: running is set under the mutex
\* and go phc.healthCheckLoop() launches a loop.
Started(h) == [h EXCEPT !.running = TRUE, !.loops = @ + 1, !.starts = @ + 1]

\* Stop, under the mutex, on a running checker: running is cleared.
StopUnlocked(h) == [h EXCEPT !.running = FALSE, !.closing = @ + 1]

\* Stop, after the unlock: close(phc.stopChan).
StopClosed(h) == [h EXCEPT !.stopChan = "closed", !.closing = @ - 1]

\* close(phc.stopChan) panics: the channel is closed already.
ClosePanics(h) == h.stopChan = "closed"

\* Start is called on checker c.
CheckerStart(c) ==
    /\ ~phc.panicked
    /\ phc.chk[c].created
    /\ ~phc.chk[c].running
    /\ phc.chk[c].starts < MaxStarts
    /\ phc' = [phc EXCEPT !.chk[c] = Started(@)]
    /\ UNCHANGED <<pr, a, iq>>
    /\ UNCHANGED <<engineVars, clientVars>>

\* Stop is called on checker c, first part.
CheckerStopBegin(c) ==
    /\ ~phc.panicked
    /\ phc.chk[c].created
    /\ phc.chk[c].running
    /\ phc' = [phc EXCEPT !.chk[c] = StopUnlocked(@)]
    /\ UNCHANGED <<pr, a, iq>>
    /\ UNCHANGED <<engineVars, clientVars>>

\* Stop on checker c, second part: close(phc.stopChan).
CheckerStopClose(c) ==
    /\ ~phc.panicked
    /\ phc.chk[c].closing > 0
    /\ phc' = IF ClosePanics(phc.chk[c])
              THEN [phc EXCEPT !.panicked = TRUE]
              ELSE [phc EXCEPT !.chk[c] = StopClosed(@)]
    /\ UNCHANGED <<pr, a, iq>>
    /\ UNCHANGED <<engineVars, clientVars>>

\* healthCheckLoop: a loop of checker c runs runHealthChecks, at its start
\* or when the select takes case <-ticker.C.
LoopRound(c) ==
    /\ ~phc.panicked
    /\ phc.chk[c].loops > 0
    /\ phc.chk[c].rounds < MaxRounds
    /\ phc' = [phc EXCEPT !.chk[c].rounds = @ + 1]
    /\ UNCHANGED <<pr, a, iq>>
    /\ UNCHANGED <<engineVars, clientVars>>

\* healthCheckLoop: the select takes case <-phc.stopChan and the loop
\* returns.
LoopExit(c) ==
    /\ ~phc.panicked
    /\ phc.chk[c].loops > 0
    /\ phc.chk[c].stopChan = "closed"
    /\ phc' = [phc EXCEPT !.chk[c].loops = @ - 1]
    /\ UNCHANGED <<pr, a, iq>>
    /\ UNCHANGED <<engineVars, clientVars>>

\* NumDirect checkers made and not started, used without rotator or scraper.
StartStopInit ==
    /\ phc = [chk |-> [c \in Checkers |-> IF c <= NumDirect THEN NewChecker ELSE NotMade],
              panicked |-> FALSE]
    /\ pr = NoRotator
    /\ PoolOff
    /\ RetryOff
    /\ QueueOff
    /\ BucketOff
    /\ MemoryOff
    /\ CliOff
    /\ ScraperOff

StartStopNext ==
    \/ \E c \in Checkers : CheckerStart(c)
    \/ \E c \in Checkers : CheckerStopBegin(c)
    \/ \E c \in Checkers : CheckerStopClose(c)
    \/ \E c \in Checkers : LoopRound(c)
    \/ \E c \in Checkers : LoopExit(c)

SpecStartStop == StartStopInit /\ [][StartStopNext]_vars

(***************************************************************************)
(* Claims about Start and Stop of the checker (checked under               *)
(* SpecStartStop)                                                          *)
(***************************************************************************)
\* C34: no sequence of Start and Stop calls on a ProxyHealthChecker makes a
\* call panic: the stop channel is closed at most once.
C34_StopChanClosedOnce == ~phc.panicked

(***************************************************************************)
(* The checkers of an AdvancedScraper and AdvancedScraper.Stop             *)
(***************************************************************************)
\* The options that give the scraper proxies or checkers, with the mode
\* WithProxyRotation is given (the other two do not take one).
HealthOptions ==
    [name : {"WithProxyRotation"},
     mode : {"RotatePerRequest", "RotateOnError", "HealthAware"}]
    \cup [name : {"WithHealthAwareProxyRotation", "WithProxyHealthMonitoring"},
          mode : {"HealthAware"}]

\* The option lists of the constructor.
OptionLists == UNION {[1..n -> HealthOptions] : n \in 1..MaxOptions}

\* The k-th checker that no call has made yet, in the order
\* NewProxyHealthChecker returns them.
RECURSIVE FreshFrom(_, _)
FreshFrom(c, k) ==
    IF phc.chk[c].created THEN FreshFrom(c + 1, k)
    ELSE IF k = 1 THEN c
    ELSE FreshFrom(c + 1, k - 1)

FreshChecker(k) == FreshFrom(1, k)

\* NewAdvancedScraperWithJS before the options are applied.
NewScraperWith(options) ==
    [todo |-> options, healthChecker |-> NoChecker, pc |-> "options"]

\* NewProxyRotator(proxies, mode), called by WithProxyRotation and by
\* WithHealthAwareProxyRotation (with HealthAware), its result stored in
\* s.proxyRotator: in HealthAware mode it makes a checker, keeps it and
\* starts it.
NewProxyRotatorCall ==
    /\ a.pc = "options"
    /\ a.todo # <<>>
    /\ Head(a.todo).name \in {"WithProxyRotation", "WithHealthAwareProxyRotation"}
    /\ IF Head(a.todo).mode = "HealthAware"
       THEN /\ pr' = [made |-> TRUE, healthChecker |-> FreshChecker(1),
                      enableHealth |-> TRUE]
            /\ phc' = [phc EXCEPT !.chk[FreshChecker(1)] = Started(NewChecker)]
       ELSE /\ pr' = [made |-> TRUE, healthChecker |-> NoChecker,
                      enableHealth |-> FALSE]
            /\ UNCHANGED phc
    /\ a' = IF Head(a.todo).name = "WithProxyRotation"
            THEN [a EXCEPT !.todo = Tail(@)]
            ELSE [a EXCEPT !.pc = "rotator"]
    /\ UNCHANGED iq
    /\ UNCHANGED <<engineVars, clientVars>>

\* WithHealthAwareProxyRotation after NewProxyRotator: a checker of its own
\* is made, stored in the scraper and in the rotator, and started.
InstallHealthChecker ==
    /\ a.pc = "rotator"
    /\ a' = [a EXCEPT !.healthChecker = FreshChecker(1),
                      !.todo = Tail(@),
                      !.pc = "options"]
    /\ pr' = [pr EXCEPT !.healthChecker = FreshChecker(1), !.enableHealth = TRUE]
    /\ phc' = [phc EXCEPT !.chk[FreshChecker(1)] = Started(NewChecker)]
    /\ UNCHANGED iq
    /\ UNCHANGED <<engineVars, clientVars>>

\* WithProxyHealthMonitoring: a checker is made and stored in the scraper,
\* nothing starts it; with a rotator, EnableHealthMonitoring: a rotator
\* without health monitoring makes a checker of its own and starts it.
WithProxyHealthMonitoring ==
    /\ a.pc = "options"
    /\ a.todo # <<>>
    /\ Head(a.todo).name = "WithProxyHealthMonitoring"
    /\ a' = [a EXCEPT !.healthChecker = FreshChecker(1), !.todo = Tail(@)]
    /\ IF pr.made /\ ~pr.enableHealth
       THEN /\ pr' = [pr EXCEPT !.healthChecker = FreshChecker(2),
                                !.enableHealth = TRUE]
            /\ phc' = [phc EXCEPT !.chk[FreshChecker(1)] = NewChecker,
                                  !.chk[FreshChecker(2)] = Started(NewChecker)]
       ELSE /\ phc' = [phc EXCEPT !.chk[FreshChecker(1)] = NewChecker]
            /\ UNCHANGED pr
    /\ UNCHANGED iq
    /\ UNCHANGED <<engineVars, clientVars>>

\* Stop on checker record h, both parts: nothing when it is not running.
StoppedChecker(h) == IF h.running THEN StopClosed(StopUnlocked(h)) ELSE h

\* phc with Stop called on checker c (on no checker: unchanged).
AfterStop(c) ==
    IF c = NoChecker THEN phc
    ELSE IF phc.chk[c].running /\ ClosePanics(phc.chk[c])
    THEN [phc EXCEPT !.panicked = TRUE]
    ELSE [phc EXCEPT !.chk[c] = StoppedChecker(@)]

\* AdvancedScraper.Stop on the built scraper, first part:
\* a.proxyRotator.Stop(), that is DisableHealthMonitoring: with health
\* enabled the rotator's checker is stopped and forgotten.
ScraperStopRotator ==
    /\ ~phc.panicked
    /\ a.pc = "options"
    /\ a.todo = <<>>
    /\ IF pr.made /\ pr.enableHealth /\ pr.healthChecker # NoChecker
       THEN /\ phc' = AfterStop(pr.healthChecker)
            /\ pr' = [pr EXCEPT !.healthChecker = NoChecker, !.enableHealth = FALSE]
       ELSE UNCHANGED <<pr, phc>>
    /\ a' = [a EXCEPT !.pc = "stopping"]
    /\ UNCHANGED iq
    /\ UNCHANGED <<engineVars, clientVars>>

\* AdvancedScraper.Stop, second part: a.healthChecker.Stop() and return.
ScraperStopChecker ==
    /\ ~phc.panicked
    /\ a.pc = "stopping"
    /\ phc' = AfterStop(a.healthChecker)
    /\ a' = [a EXCEPT !.pc = "stopped"]
    /\ UNCHANGED <<pr, iq>>
    /\ UNCHANGED <<engineVars, clientVars>>

\* A scraper about to be built with a list of options; no checker made.
ScraperStopInit ==
    /\ \E options \in OptionLists : a = NewScraperWith(options)
    /\ phc = [chk |-> [c \in Checkers |-> NotMade], panicked |-> FALSE]
    /\ pr = NoRotator
    /\ PoolOff
    /\ QueueOff
    /\ BucketOff
    /\ MemoryOff
    /\ CliOff
    /\ ScraperOff

ScraperStopNext ==
    \/ NewProxyRotatorCall
    \/ InstallHealthChecker
    \/ WithProxyHealthMonitoring
    \/ ScraperStopRotator
    \/ ScraperStopChecker
    \/ \E c \in Checkers : LoopRound(c)
    \/ \E c \in Checkers : LoopExit(c)

SpecScraperStop == ScraperStopInit /\ [][ScraperStopNext]_vars

(***************************************************************************)
(* Claims about AdvancedScraper.Stop (checked under SpecScraperStop)       *)
(***************************************************************************)
\* C35: after AdvancedScraper.Stop has returned, every health-check loop
\* started for the scraper that is still running has been signalled to
\* stop: its stop channel is closed.
C35_LoopsSignalled ==
    a.pc = "stopped"
        => \A c \in Checkers : phc.chk[c].loops > 0 => phc.chk[c].stopChan = "closed"

====
